---- MODULE Spec2Model ----
(***************************************************************************)
(* SecureScript: the policy hardening execution engine.                    *)
(*                                                                         *)
(*   SpecRegistry  the registry bridge of the hardening app: the IPC       *)
(*                 handlers apply-hardening, revert-hardening and          *)
(*                 check-status acting on the registry through regedit.    *)
(*   SpecSort      the natural ordering of policies by the dotted numeric  *)
(*                 prefix of their descriptions.                           *)
(*   SpecScripts   the scripts the policy viewers show, the packing of a   *)
(*                 template's scripts and the extraction of a command.     *)
(*   SpecRun       the report runs of the dashboard, their commands run    *)
(*                 by reg.exe on the registry of the machine; FairSpecRun  *)
(*                 adds that an awaited call is settled in the end.        *)
(*   SpecBridge    the script bridge: preload, IPC handlers, executeScript.*)
(*                                                                         *)
(* Text is modelled as a sequence of one-character strings, so that        *)
(* parsing, trimming and matching are computed character by character.     *)
(***************************************************************************)
EXTENDS Integers, Sequences, FiniteSets, TLC

VARIABLES
    registry,       \* the registry the bridge acts on
    last,           \* the last handler call of the bridge and its result
    trail,          \* the apply/revert sequence in progress
    policies,       \* the sorted policy list of the product page
    compared,       \* the pair of policies naturalSort was last applied to
    customScripts,  \* the custom script map of the product page
    detail,         \* the policy a viewer shows and its three scripts
    template,       \* the policy list of a template and the script packed for it
    command,        \* the command extracted from the packed script for a policy
    executingTemplateId,    \* the template the dashboard marks as executing
    feedback,       \* the feedback the dashboard shows
    runs,           \* the calls of handleGenerateReport and where each stands
    bridge,         \* the policy commands the execution bridge was handed
    isWindows,      \* whether the platform of the main process is win32
    invocation,     \* the call of the script bridge in progress
    executed,       \* the command executeScript handed to the shell
    settled         \* how the call of the script bridge was settled

regVars == <<registry, last, trail>>

sortVars == <<policies, compared>>

scriptVars == <<customScripts, detail, template, command>>

runVars == <<executingTemplateId, feedback, runs, bridge>>

bridgeVars == <<isWindows, invocation, executed, settled>>

vars == <<registry, last, trail, policies, compared, customScripts, detail, template,
          command, executingTemplateId, feedback, runs, bridge, isWindows, invocation,
          executed, settled>>

(***************************************************************************)
(* Text helpers (JavaScript string semantics on character sequences).      *)
(***************************************************************************)
Digits == <<"0", "1", "2", "3", "4", "5", "6", "7", "8", "9">>

IsDigit(c) == \E d \in DOMAIN Digits : Digits[d] = c

DigitVal(c) == (CHOOSE d \in DOMAIN Digits : Digits[d] = c) - 1

\* White space as String.prototype.trim, parseInt and \s see it.
IsSpace(c) == c \in {" ", "\n", "\t", "\r"}

RECURSIVE TrimStart(_)
TrimStart(s) ==
    IF s # <<>> /\ IsSpace(Head(s)) THEN TrimStart(Tail(s)) ELSE s

RECURSIVE TrimEnd(_)
TrimEnd(s) ==
    IF s # <<>> /\ IsSpace(s[Len(s)]) THEN TrimEnd(SubSeq(s, 1, Len(s) - 1)) ELSE s

Trim(s) == TrimEnd(TrimStart(s))

\* s starts with p at position i (1-based).
StartsWithAt(s, p, i) ==
    /\ i >= 1
    /\ i + Len(p) - 1 <= Len(s)
    /\ \A k \in 1..Len(p) : s[i + k - 1] = p[k]

\* The longest run of decimal digits at the head of s.
RECURSIVE DigitRun(_)
DigitRun(s) ==
    IF s # <<>> /\ IsDigit(Head(s)) THEN <<Head(s)>> \o DigitRun(Tail(s)) ELSE <<>>

\* The value of a non-empty digit sequence, most significant digit first.
RECURSIVE DigitsValue(_)
DigitsValue(ds) ==
    IF ds = <<>> THEN 0
    ELSE DigitsValue(SubSeq(ds, 1, Len(ds) - 1)) * 10 + DigitVal(ds[Len(ds)])

(***************************************************************************)
(* JavaScript values as they reach the handlers: numbers, strings, NaN and *)
(* undefined, in one record shape.                                         *)
(***************************************************************************)
Num(n) == [t |-> "num", n |-> n, s |-> <<>>]
Str(s) == [t |-> "str", n |-> 0, s |-> s]
NaN == [t |-> "nan", n |-> 0, s |-> <<>>]
Undefined == [t |-> "undef", n |-> 0, s |-> <<>>]

\* parseInt(text, 10): leading white space skipped, optional sign, then the
\* longest digit prefix; NaN when there is none.
parseInt(s) ==
    LET t == TrimStart(s)
        neg == t # <<>> /\ Head(t) = "-"
        u == IF t # <<>> /\ Head(t) \in {"-", "+"} THEN Tail(t) ELSE t
        ds == DigitRun(u)
    IN  IF ds = <<>> THEN NaN
        ELSE Num(IF neg THEN 0 - DigitsValue(ds) ELSE DigitsValue(ds))

\* ToNumber(string) as the == operator applies it: the whole trimmed text
\* must be a decimal literal; the empty text is 0.
ToNumber(s) ==
    LET t == Trim(s)
        neg == t # <<>> /\ Head(t) = "-"
        u == IF t # <<>> /\ Head(t) \in {"-", "+"} THEN Tail(t) ELSE t
        ds == DigitRun(u)
    IN  IF t = <<>> THEN Num(0)
        ELSE IF ds = <<>> \/ ds # u THEN NaN
        ELSE Num(IF neg THEN 0 - DigitsValue(ds) ELSE DigitsValue(ds))

\* a === b
StrictEquals(a, b) ==
    /\ a.t = b.t
    /\ a.t # "nan"
    /\ a.n = b.n
    /\ a.s = b.s

\* a == b (abstract equality comparison).
LooseEquals(a, b) ==
    IF a.t = b.t THEN StrictEquals(a, b)
    ELSE IF a.t = "num" /\ b.t = "str" THEN StrictEquals(a, ToNumber(b.s))
    ELSE IF a.t = "str" /\ b.t = "num" THEN StrictEquals(ToNumber(a.s), b)
    ELSE FALSE

(***************************************************************************)
(* The registry bridge (hardening app main process).                       *)
(*                                                                         *)
(* The registry is a flat set of keys, each either absent or present with  *)
(* its named values.  regedit is an external library: its calls are        *)
(* modelled by the outcomes the handlers are written against (a listing    *)
(* with exists=false, a listing without the entry, or a rejection whose    *)
(* message says the key cannot be found).                                  *)
(***************************************************************************)
K1 == <<"K", "1">>
K2 == <<"K", "2">>
Keys == {K1, K2}

I1 == <<"I">>
Items == {I1}

NoText == <<>>

\* Expected values carried by the policies of the model.
ValueData == {<<"1">>, <<"1", "x">>, K2}

\* Values a registry item can hold when the handlers first see it.
StoredValues == {Num(1), Num(2), Str(<<"1">>)}

JSValues == StoredValues \cup {Str(v) : v \in ValueData} \cup {Undefined}

\* The policy object the renderer passes to the handlers.
PolicyShapes ==
    [reg_key : {NoText, K1},
     reg_item : {NoText, I1},
     value_type : {"POLICY_DWORD", "POLICY_TEXT"},
     value_data : ValueData,
     reg_option : {"MUST_NOT_EXIST", "CAN_BE_NULL"},
     type : {"REG_CHECK", "REGISTRY_SETTING"}]

\* Key and item are given together or not at all; the type REG_CHECK comes
\* with the option MUST_NOT_EXIST.
RegPolicies ==
    {p \in PolicyShapes :
        /\ (p.reg_key = NoText) <=> (p.reg_item = NoText)
        /\ p.type = "REG_CHECK" => p.reg_option = "MUST_NOT_EXIST"}

NoPolicy ==
    [reg_key |-> NoText, reg_item |-> NoText, value_type |-> "", value_data |-> NoText,
     reg_option |-> "", type |-> ""]

NoValues == [i \in Items |-> Undefined]

AbsentKey == [exists |-> FALSE, values |-> NoValues]

KeyExists(reg, k) == k \in Keys /\ reg[k].exists

ItemExists(reg, k, i) == KeyExists(reg, k) /\ i \in Items /\ reg[k].values[i] # Undefined

\* Messages of the errors regedit rejects with.
MsgNotFound == "The system cannot find the key specified"
MsgBadArgument == "invalid argument"

\* error.message.includes('find the key')
IncludesFindTheKey(msg) == msg \in {MsgNotFound}

Resolved(reg) == [ok |-> TRUE, msg |-> "", reg |-> reg]
Rejected(reg, msg) == [ok |-> FALSE, msg |-> msg, reg |-> reg]

\* regedit.createKey(key)
LibCreateKey(reg, k) ==
    IF k \notin Keys THEN {Rejected(reg, MsgBadArgument)}
    ELSE {Resolved([reg EXCEPT ![k].exists = TRUE])}

\* regedit.putValue({key: {item: {value, type}}})
LibPutValue(reg, k, i, v) ==
    IF ~KeyExists(reg, k) THEN {Rejected(reg, MsgNotFound)}
    ELSE IF i \notin Items \/ v.t \in {"nan", "undef"} THEN {Rejected(reg, MsgBadArgument)}
    ELSE {Resolved([reg EXCEPT ![k].values[i] = v])}

\* regedit.deleteValue(key\item): an item that is not there is reported by a
\* not-found rejection or passed over in silence.
LibDeleteValue(reg, k, i) ==
    IF ~KeyExists(reg, k) THEN {Rejected(reg, MsgNotFound)}
    ELSE IF ~ItemExists(reg, k, i) THEN {Rejected(reg, MsgNotFound), Resolved(reg)}
    ELSE {Resolved([reg EXCEPT ![k].values[i] = Undefined])}

\* regedit.deleteKey(key)
LibDeleteKey(reg, k) ==
    IF ~KeyExists(reg, k) THEN {Rejected(reg, MsgNotFound), Resolved(reg)}
    ELSE {Resolved([reg EXCEPT ![k] = AbsentKey])}

Listing(entry, exists, values) ==
    [ok |-> TRUE, msg |-> "", entry |-> entry, exists |-> exists, values |-> values]

ListRejected(msg) ==
    [ok |-> FALSE, msg |-> msg, entry |-> FALSE, exists |-> FALSE, values |-> NoValues]

\* regedit.list(key): result[key] with its exists flag and values, for a
\* key that is not there one of the three shapes the handler provides for.
LibList(reg, k) ==
    IF k = NoText THEN {ListRejected(MsgBadArgument)}
    ELSE IF KeyExists(reg, k) THEN {Listing(TRUE, TRUE, reg[k].values)}
    ELSE {Listing(TRUE, FALSE, NoValues), Listing(FALSE, FALSE, NoValues),
          ListRejected(MsgNotFound)}

Result(success, status, message, error) ==
    [success |-> success, status |-> status, message |-> message, error |-> error]

NoResult == Result(FALSE, "", "", "")

Run(result, reg) == [result |-> result, reg |-> reg]

\* !reg_key || !reg_item
MissingKeyOrItem(policy) == policy.reg_key = NoText \/ policy.reg_item = NoText

\* The value apply-hardening puts: parseInt(value_data, 10) for a DWORD.
valueToSet(policy) ==
    IF policy.value_type = "POLICY_DWORD" THEN parseInt(policy.value_data)
    ELSE Str(policy.value_data)

ApplyFailed(msg, reg) ==
    Run(Result(FALSE, "", "Error: Try running as Administrator.", msg), reg)

\* ipcMain.handle('apply-hardening'): every completion of the handler on
\* registry reg, as the result returned and the registry left behind.
ApplyHardeningRuns(reg, policy) ==
    IF MissingKeyOrItem(policy)
    THEN {Run(Result(FALSE, "", "Invalid policy data for applying.", ""), reg)}
    ELSE IF policy.type = "REG_CHECK" /\ policy.reg_option = "MUST_NOT_EXIST"
    THEN {IF d.ok THEN Run(Result(TRUE, "", "Key successfully deleted.", ""), d.reg)
          ELSE ApplyFailed(d.msg, d.reg) : d \in LibDeleteKey(reg, policy.value_data)}
    ELSE UNION {IF ~c.ok THEN {ApplyFailed(c.msg, c.reg)}
                ELSE {IF p.ok
                      THEN Run(Result(TRUE, "", "Hardening applied successfully!", ""), p.reg)
                      ELSE ApplyFailed(p.msg, p.reg)
                      : p \in LibPutValue(c.reg, policy.reg_key, policy.reg_item,
                                          valueToSet(policy))}
                : c \in LibCreateKey(reg, policy.reg_key)}

\* A revert that names the key alone.
valuePathKeyOnly(policy) == [key |-> policy.reg_key, item |-> NoText]

\* const valuePath = `${reg_key}\\${reg_item}`
valuePath(policy) == [key |-> policy.reg_key, item |-> policy.reg_item]

\* A catch without the not-found case.
RevertCaughtAsFailure(msg, reg) ==
    Run(Result(FALSE, "", "Error: Try running as Administrator.", msg), reg)

\* The catch of revert-hardening: a not-found error counts as reverted.
RevertCaught(msg, reg) ==
    IF IncludesFindTheKey(msg)
    THEN Run(Result(TRUE, "", "Reverted (value was not set).", msg), reg)
    ELSE Run(Result(FALSE, "", "Error: Try running as Administrator.", msg), reg)

\* ipcMain.handle('revert-hardening')
RevertHardeningRuns(reg, policy) ==
    IF MissingKeyOrItem(policy)
    THEN {Run(Result(FALSE, "", "Invalid policy data for reverting.", ""), reg)}
    ELSE {IF d.ok THEN Run(Result(TRUE, "", "Hardening reverted successfully!", ""), d.reg)
          ELSE RevertCaught(d.msg, d.reg)
          : d \in LibDeleteValue(reg, valuePath(policy).key, valuePath(policy).item)}

\* A catch of check-status without the not-found case.
CheckCaughtAsError(msg) == Result(FALSE, "Error", "Error", msg)

\* A catch of check-status that counts a not-found error as a success, as
\* the catch of revert-hardening does.
CheckCaughtAsSuccess(msg) ==
    IF IncludesFindTheKey(msg)
    THEN Result(TRUE, "Key Not Found", "Registry key not found.", msg)
    ELSE Result(FALSE, "Error", "Error", msg)

\* The catch of check-status.
CheckCaught(msg) ==
    IF IncludesFindTheKey(msg)
    THEN Result(FALSE, "Key Not Found", "Registry key not found.", msg)
    ELSE Result(FALSE, "Error", "Error", msg)

\* policy.value_type === 'POLICY_DWORD' ? parseInt(value_data, 10) : value_data
expectedValue(policy) ==
    IF policy.value_type = "POLICY_DWORD" THEN parseInt(policy.value_data)
    ELSE Str(policy.value_data)

\* A comparison with === in place of ==.
ValuesMatchStrictly(currentValue, expected) == StrictEquals(currentValue, expected)

\* currentValue == expectedValue
ValuesMatch(currentValue, expected) == LooseEquals(currentValue, expected)

\* The branch of check-status for a key that must not exist.
CheckAbsence(policy, keys) ==
    IF ~keys.ok THEN CheckCaught(keys.msg)
    ELSE IF keys.entry /\ keys.exists
    THEN Result(FALSE, "Not Compliant", "Key exists but should be absent.", "")
    ELSE Result(TRUE, "Compliant", "Key does not exist, as required.", "")

\* The branch of check-status for a value setting.
CheckValue(policy, result) ==
    IF ~result.ok THEN CheckCaught(result.msg)
    ELSE IF ~result.entry \/ ~result.exists
    THEN Result(FALSE, "Key Not Found", "Registry key not found.", "")
    ELSE IF result.values[policy.reg_item] = Undefined
    THEN Result(FALSE, "Value Not Found", "Item not found in key.", "")
    ELSE IF ValuesMatch(result.values[policy.reg_item], expectedValue(policy))
    THEN Result(TRUE, "Compliant", "Status: Compliant.", "")
    ELSE Result(FALSE, "Not Compliant", "Status: Not Compliant.", "")

\* ipcMain.handle('check-status'): every result the handler can return on
\* registry reg.
CheckStatusResults(reg, policy) ==
    IF policy.reg_option = "MUST_NOT_EXIST"
    THEN {CheckAbsence(policy, keys) : keys \in LibList(reg, policy.value_data)}
    ELSE IF MissingKeyOrItem(policy)
    THEN {Result(FALSE, "Error", "Invalid policy data for checking.", "")}
    ELSE {CheckValue(policy, result) : result \in LibList(reg, policy.reg_key)}

(***************************************************************************)
(* Natural ordering (naturalSort of the product pages).                    *)
(***************************************************************************)
\* The rest of a dotted numeric prefix: (\.\d+)*
RECURSIVE DottedParts(_)
DottedParts(s) ==
    IF Len(s) >= 2 /\ s[1] = "." /\ IsDigit(s[2])
    THEN LET ds == DigitRun(Tail(s))
         IN  <<".">> \o ds \o DottedParts(SubSeq(s, Len(ds) + 2, Len(s)))
    ELSE <<>>

\* description.match(/^(\d+(\.\d+)*)/): the matched prefix, the empty text
\* standing for null (no match).
PolicyIdMatch(description) ==
    LET ds == DigitRun(description)
    IN  IF ds = <<>> THEN NoText
        ELSE ds \o DottedParts(SubSeq(description, Len(ds) + 1, Len(description)))

\* prefix.split('.')
RECURSIVE SplitDots(_)
SplitDots(s) ==
    IF \E i \in 1..Len(s) : s[i] = "."
    THEN LET i == CHOOSE k \in 1..Len(s) : s[k] = "." /\ \A j \in 1..(k - 1) : s[j] # "."
         IN  <<SubSeq(s, 1, i - 1)>> \o SplitDots(SubSeq(s, i + 1, Len(s)))
    ELSE <<s>>

\* aMatch[0].split('.').map(Number)
PartsOf(prefix) ==
    LET ps == SplitDots(prefix) IN [i \in 1..Len(ps) |-> DigitsValue(ps[i])]

\* The collation order of the characters of the model, lowest first.
CharOrder ==
    <<"\n", " ", ".", "+", "#", ":", "0", "1", "2", "3", "4", "5", "6", "7", "8", "9",
      "A", "B", "x", "y">>

CharRank(c) == CHOOSE r \in DOMAIN CharOrder : CharOrder[r] = c

\* The zero width space U+200B, one character of a description: \d does
\* not match it and the collation gives it no weight.
ZeroWidthSpace == "U+200B"

\* The characters of a text that carry a collation weight.
Collated(s) == SelectSeq(s, LAMBDA c : c # ZeroWidthSpace)

\* The comparison of two collated texts, character by character.
RECURSIVE CompareCollated(_, _)
CompareCollated(a, b) ==
    IF a = <<>> /\ b = <<>> THEN 0
    ELSE IF a = <<>> THEN 0 - 1
    ELSE IF b = <<>> THEN 1
    ELSE IF CharRank(Head(a)) < CharRank(Head(b)) THEN 0 - 1
    ELSE IF CharRank(Head(a)) > CharRank(Head(b)) THEN 1
    ELSE CompareCollated(Tail(a), Tail(b))

\* a.localeCompare(b): -1, 0 or 1.
localeCompare(a, b) == CompareCollated(Collated(a), Collated(b))

Max(m, n) == IF m >= n THEN m ELSE n

\* aParts[i] || 0
PartOr0(parts, i) == IF i <= Len(parts) THEN parts[i] ELSE 0

\* The for loop of naturalSort from index i on, then the length difference.
RECURSIVE CompareParts(_, _, _)
CompareParts(aParts, bParts, i) ==
    IF i > Max(Len(aParts), Len(bParts)) THEN Len(aParts) - Len(bParts)
    ELSE IF PartOr0(aParts, i) < PartOr0(bParts, i) THEN 0 - 1
    ELSE IF PartOr0(aParts, i) > PartOr0(bParts, i) THEN 1
    ELSE CompareParts(aParts, bParts, i + 1)

\* A comparator that compares the descriptions as text.
naturalSortAsText(a, b) == localeCompare(a.description, b.description)

\* naturalSort(a, b)
naturalSort(a, b) ==
    LET aMatch == PolicyIdMatch(a.description)
        bMatch == PolicyIdMatch(b.description)
    IN  IF aMatch = NoText \/ bMatch = NoText
        THEN localeCompare(a.description, b.description)
        ELSE CompareParts(PartsOf(aMatch), PartsOf(bMatch), 1)

\* One insertion of Array.prototype.sort (stable): x goes after the last
\* element that does not compare greater than it.
RECURSIVE SortInsert(_, _)
SortInsert(sorted, x) ==
    IF sorted = <<>> THEN <<x>>
    ELSE IF naturalSort(sorted[Len(sorted)], x) > 0
    THEN SortInsert(SubSeq(sorted, 1, Len(sorted) - 1), x) \o <<sorted[Len(sorted)]>>
    ELSE sorted \o <<x>>

\* list.sort(naturalSort)
RECURSIVE SortPolicies(_)
SortPolicies(list) ==
    IF list = <<>> THEN <<>>
    ELSE SortInsert(SortPolicies(SubSeq(list, 1, Len(list) - 1)), list[Len(list)])

\* Longest dotted prefix of the descriptions of the model, in components.
MaxParts == 3

\* Components of the prefixes of the model.
PrefixComponents == {<<"0">>, <<"9">>, <<"1", "0">>}

RECURSIVE PrefixesOfLen(_)
PrefixesOfLen(n) ==
    IF n = 1 THEN PrefixComponents
    ELSE {p \o <<".">> \o c : p \in PrefixesOfLen(n - 1), c \in PrefixComponents}

\* Descriptions the product page sorts: a dotted prefix and a title, a
\* title alone, two whose prefix has the value of the prefix 9 of another
\* with another text, and one whose number follows a zero width space.
SortDescriptions ==
    {p \o <<" ", "A">> : p \in UNION {PrefixesOfLen(n) : n \in 1..MaxParts}}
        \cup {<<"A">>, <<"B", " ", "1">>, <<"9", " ", "B">>, <<"0", "9", " ", "A">>,
              <<ZeroWidthSpace, "5", " ", "A">>}

SortPolicySet == {[description |-> d] : d \in SortDescriptions}

(***************************************************************************)
(* Script generation, packing and extraction.                              *)
(*                                                                         *)
(* Descriptions, custom scripts and the commands of a packed script are    *)
(* character sequences.  The long fixed stretches of the scripts the       *)
(* viewers generate, which are only displayed, are kept as one element.    *)
(***************************************************************************)
\* Descriptions of the policies of the model.
Desc ==
    [a |->
        <<"1", ".", "1", " ", "A">>,
     b |->
        <<"2", " ", "B", "+">>,
     n |->
        <<"A">>,
     kernel |->
        <<"3", " ", "E", "n", "s", "u", "r", "e", " ", "x", " ", "k", "e", "r", "n",
          "e", "l", " ", "m", "o", "d", "u", "l", "e", " ", "i", "s", " ", "n", "o",
          "t", " ", "a", "v", "a", "i", "l", "a", "b", "l", "e">>,
     tmp |->
        <<"4", " ", "E", "n", "s", "u", "r", "e", " ", "/", "t", "m", "p", " ", "i",
          "s", " ", "a", " ", "s", "e", "p", "a", "r", "a", "t", "e", " ", "p", "a",
          "r", "t", "i", "t", "i", "o", "n">>,
     both |->
        <<"5", " ", "E", "n", "s", "u", "r", "e", " ", "x", " ", "k", "e", "r", "n",
          "e", "l", " ", "m", "o", "d", "u", "l", "e", " ", "i", "s", " ", "n", "o",
          "t", " ", "a", "v", "a", "i", "l", "a", "b", "l", "e", " ", "/", "t", "m",
          "p", " ", "i", "s", " ", "a", " ", "s", "e", "p", "a", "r", "a", "t", "e",
          " ", "p", "a", "r", "t", "i", "t", "i", "o", "n">>]

\* A policy of a benchmark: one that sets a registry value ("value"), one
\* that requires a key to be absent ("absence"), one that carries its audit
\* command ("cmd"), one without any of these ("bare").
ScriptPolicy(description, shape) ==
    [description |-> description,
     reg_key |-> IF shape = "value" THEN K1 ELSE NoText,
     reg_item |-> IF shape = "value" THEN I1 ELSE NoText,
     value_type |-> IF shape = "value" THEN "POLICY_DWORD" ELSE "",
     value_data |-> IF shape = "value" THEN <<"1">>
                    ELSE IF shape = "absence" THEN K2 ELSE NoText,
     reg_option |-> IF shape = "value" THEN "CAN_BE_NULL"
                    ELSE IF shape = "absence" THEN "MUST_NOT_EXIST" ELSE "",
     cmd |-> IF shape = "cmd" THEN <<"c">> ELSE NoText]

NoScriptPolicy == ScriptPolicy(NoText, "bare")

\* Policies a viewer can be shown.
ViewerPolicies ==
    {ScriptPolicy(d, shape) :
     d \in {Desc.a, Desc.b, Desc.n, Desc.kernel, Desc.tmp, Desc.both},
     shape \in {"value", "absence", "cmd", "bare"}}

\* Policies a template is made of.
TemplatePolicies ==
    {ScriptPolicy(d, shape) :
     d \in {Desc.a, Desc.b, Desc.n}, shape \in {"value", "absence", "bare"}}

\* One script of a custom entry: a string, or the field is missing.
Field(defined, text) == [defined |-> defined, text |-> text]

CustomEntry(h, a, r) ==
    [defined |-> TRUE, hardeningScript |-> h, auditScript |-> a,
     revertHardeningScript |-> r]

\* customScripts[policyId] is undefined.
NoEntry ==
    [defined |-> FALSE, hardeningScript |-> Field(FALSE, NoText),
     auditScript |-> Field(FALSE, NoText), revertHardeningScript |-> Field(FALSE, NoText)]

ScriptTypes == {"hardeningScript", "auditScript", "revertHardeningScript"}

\* customScripts[policyId]
CustomScriptsAt(scripts, policyId) ==
    IF policyId \in DOMAIN scripts THEN scripts[policyId] ELSE NoEntry

\* value || fallback, on a field of a custom entry.
FieldOr(field, fallback) ==
    IF field.defined /\ field.text # NoText THEN field.text ELSE fallback

\* Fixed text of the generated commands, of the header that addresses a
\* policy in a packed script, and of the patterns of the Ubuntu viewer.
Txt ==
    [regDelete |->
        <<"r", "e", "g", " ", "d", "e", "l", "e", "t", "e", " ", "\"">>,
     regAdd |->
        <<"r", "e", "g", " ", "a", "d", "d", " ", "\"">>,
     regQuery |->
        <<"r", "e", "g", " ", "q", "u", "e", "r", "y", " ", "\"">>,
     quoteForce |->
        <<"\"", " ", "/", "f">>,
     value |->
        <<"\"", " ", "/", "v", " ", "\"">>,
     type |->
        <<"\"", " ", "/", "t", " ">>,
     data |->
        <<" ", "/", "d", " ", "\"">>,
     quote |->
        <<"\"">>,
     regDword |->
        <<"R", "E", "G", "_", "D", "W", "O", "R", "D">>,
     regSz |->
        <<"R", "E", "G", "_", "S", "Z">>,
     noRevert |->
        <<"#", " ", "N", "o", " ", "a", "u", "t", "o", "m", "a", "t", "i", "c", " ",
          "r", "e", "v", "e", "r", "t", " ", "f", "o", "r", " ", "M", "U", "S", "T",
          "_", "N", "O", "T", "_", "E", "X", "I", "S", "T", " ", "p", "o", "l", "i",
          "c", "y", ":", " ">>,
     policyHeader |->
        <<"#", " ", "P", "o", "l", "i", "c", "y", ":", " ">>,
     nextHeader |->
        <<"\n", "#", " ", "P", "o", "l", "i", "c", "y", ":">>,
     ensure |->
        <<"E", "n", "s", "u", "r", "e", " ">>,
     kernelModule |->
        <<" ", "k", "e", "r", "n", "e", "l", " ", "m", "o", "d", "u", "l", "e", " ",
          "i", "s", " ", "n", "o", "t", " ", "a", "v", "a", "i", "l", "a", "b", "l", "e">>,
     tmpPartition |->
        <<"/", "t", "m", "p", " ", "i", "s", " ", "a", " ", "s", "e", "p", "a", "r",
          "a", "t", "e", " ", "p", "a", "r", "t", "i", "t", "i", "o", "n">>]

\* The three scripts of a policy.
Scripts(harden, check, revert) == [harden |-> harden, check |-> check, revert |-> revert]

\* reg_option === 'MUST_NOT_EXIST' && value_data
MustNotExist(policy) == policy.reg_option = "MUST_NOT_EXIST" /\ policy.value_data # NoText

\* The commands for a key that must not exist: reg delete "${value_data}" /f
\* and reg query "${value_data}"; the revert text differs by caller.
AbsenceCommands(policy, revert) ==
    Scripts(Txt.regDelete \o policy.value_data \o Txt.quoteForce,
            Txt.regQuery \o policy.value_data \o Txt.quote,
            revert)

\* The commands for a registry value:
\*   reg add "${reg_key}" /v "${reg_item}" /t ${regType} /d "${value_data}" /f
\*   reg query "${reg_key}" /v "${reg_item}"
\*   reg delete "${reg_key}" /v "${reg_item}" /f
ValueCommands(policy) ==
    LET regType == IF policy.value_type = "POLICY_DWORD" THEN Txt.regDword ELSE Txt.regSz
        valueName == policy.reg_key \o Txt.value \o policy.reg_item
    IN  Scripts(Txt.regAdd \o valueName \o Txt.type \o regType \o Txt.data
                    \o policy.value_data \o Txt.quoteForce,
                Txt.regQuery \o valueName \o Txt.quote,
                Txt.regDelete \o valueName \o Txt.quoteForce)

\* A viewer that shows the scripts of a custom entry without the white
\* space at their ends.
CustomScriptsTrimmed(entry) ==
    Scripts(FieldOr(Field(TRUE, Trim(entry.hardeningScript.text)),
                    <<"# No custom hardening script provided.">>),
            FieldOr(Field(TRUE, Trim(entry.auditScript.text)),
                    <<"# No custom audit script provided.">>),
            FieldOr(Field(TRUE, Trim(entry.revertHardeningScript.text)),
                    <<"# No custom revert script provided.">>))

\* The scripts of a custom entry as a viewer shows them.
CustomScriptsShown(entry) ==
    Scripts(FieldOr(entry.hardeningScript, <<"# No custom hardening script provided.">>),
            FieldOr(entry.auditScript, <<"# No custom audit script provided.">>),
            FieldOr(entry.revertHardeningScript, <<"# No custom revert script provided.">>))

\* The dynamic script generation of the Windows viewer.
WindowsGenerated(policy) ==
    IF MustNotExist(policy)
    THEN LET commands == AbsenceCommands(policy,
                 <<"# There is no automatic revert script for this policy.\n# This policy requires a registry key to be absent.">>)
         IN  [commands EXCEPT !.check =
                 @ \o <<"\n\n# This check PASSES if it returns an error (key not found).">>]
    ELSE IF MissingKeyOrItem(policy)
    THEN Scripts(<<"# Invalid policy data: Missing registry key or item.">>,
                 <<"# Invalid policy data">>, <<"# Invalid policy data">>)
    ELSE ValueCommands(policy)

\* A viewer that fills the gaps of a custom entry with generated text.
WindowsViewerMerging(policy, scripts) ==
    LET entry == CustomScriptsAt(scripts, PolicyIdMatch(policy.description))
        generated == WindowsGenerated(policy)
    IN  Scripts(FieldOr(entry.hardeningScript, generated.harden),
                FieldOr(entry.auditScript, generated.check),
                FieldOr(entry.revertHardeningScript, generated.revert))

\* PolicyDetailView useEffect of the Windows viewer: the custom scripts of
\* the policy's numeric prefix if the map has them, else generated ones.
WindowsViewer(policy, scripts) ==
    LET policyId == PolicyIdMatch(policy.description)
    IN  IF policyId # NoText /\ CustomScriptsAt(scripts, policyId).defined
        THEN CustomScriptsShown(CustomScriptsAt(scripts, policyId))
        ELSE WindowsGenerated(policy)

\* The longest run of \w characters at the head of s.
RECURSIVE WordRun(_)
WordRun(s) ==
    LET letters == {"a", "b", "c", "d", "e", "f", "g", "h", "i", "j", "k", "l", "m", "n",
                    "o", "p", "q", "r", "s", "t", "u", "v", "w", "x", "y", "z", "A", "B",
                    "C", "D", "E", "F", "G", "H", "I", "J", "K", "L", "M", "N", "O", "P",
                    "Q", "R", "S", "T", "U", "V", "W", "X", "Y", "Z", "_"}
    IN  IF s # <<>> /\ (Head(s) \in letters \/ IsDigit(Head(s)))
        THEN <<Head(s)>> \o WordRun(Tail(s)) ELSE <<>>

\* description.match(/Ensure (\w+) kernel module is not available/)[1] for
\* the leftmost match, the empty text standing for no match.
ModuleMatch(description) ==
    LET NameAt(i) ==
            IF ~StartsWithAt(description, Txt.ensure, i) THEN NoText
            ELSE LET from == i + Len(Txt.ensure)
                     name == WordRun(SubSeq(description, from, Len(description)))
                 IN  IF /\ name # NoText
                        /\ StartsWithAt(description, Txt.kernelModule, from + Len(name))
                     THEN name ELSE NoText
        at == {i \in 1..Len(description) : NameAt(i) # NoText}
    IN  IF at = {} THEN NoText ELSE NameAt(CHOOSE i \in at : \A j \in at : i <= j)

\* s.includes(p)
Includes(s, p) == \E i \in 1..(Len(s) + 1) : StartsWithAt(s, p, i)

\* The Linux script generation of the Ubuntu viewer: the default scripts,
\* replaced by the kernel module scripts when the description names a
\* module, replaced by the /tmp scripts when it names the /tmp partition.
UbuntuGenerated(policy) ==
    LET m == ModuleMatch(policy.description)
        default ==
            Scripts(<<"# Remediation for: ">> \o policy.description,
                    IF policy.cmd # NoText THEN policy.cmd
                    ELSE <<"# No audit command found for: ">> \o policy.description,
                    <<"# Revert script for: ">> \o policy.description)
        module ==
            Scripts(<<"#!/bin/sh\n# Disables the '">> \o m
                        \o <<"' kernel module.\n\n# Blacklist the module to prevent loading\n(echo \"install ">>
                        \o m \o <<" /bin/false\" >> /etc/modprobe.d/">> \o m
                        \o <<".conf)\n(echo \"blacklist ">> \o m
                        \o <<"\" >> /etc/modprobe.d/">> \o m
                        \o <<".conf)\n\n# Unload the module if it is currently loaded\nrmmod ">>
                        \o m,
                    <<"#!/bin/sh\n# Checks if '">> \o m
                        \o <<"' is disabled.\n\nlsmod | grep \"">> \o m
                        \o <<"\" || echo \"Module not loaded\"\n! grep -P -- '^(install|blacklist)\\s+">>
                        \o m
                        \o <<"\\b' /etc/modprobe.d/* && echo \"Module not configured to be disabled\"">>,
                    <<"#!/bin/sh\n# Enables the '">> \o m
                        \o <<"' kernel module.\n\nrm -f /etc/modprobe.d/">> \o m
                        \o <<".conf\nmodprobe ">> \o m)
        tmp ==
            Scripts(<<"# To configure /tmp as a separate partition, you must manually\n# create a partition or logical volume and add an entry to /etc/fstab.\n# Example for tmpfs:\n# echo 'tmpfs /tmp tmpfs defaults,rw,nosuid,nodev,noexec,relatime 0 0' >> /etc/fstab\n# systemctl unmask tmp.mount\n# mount /tmp">>,
                    <<"findmnt -nk /tmp">>,
                    <<"# To revert, remove the corresponding line from /etc/fstab and reboot.\n# Example: sed -i '/\\/tmp/d' /etc/fstab">>)
    IN  IF Includes(policy.description, Txt.tmpPartition) THEN tmp
        ELSE IF m # NoText THEN module
        ELSE default

\* PolicyDetailView useEffect of the Ubuntu viewer: the custom scripts of
\* the policy's numeric prefix (of its description, when it has none) if
\* the map has them, else generated ones.
UbuntuViewer(policy, scripts) ==
    LET prefix == PolicyIdMatch(policy.description)
        policyId == IF prefix # NoText THEN prefix ELSE policy.description
    IN  IF policyId # NoText /\ CustomScriptsAt(scripts, policyId).defined
        THEN CustomScriptsShown(CustomScriptsAt(scripts, policyId))
        ELSE UbuntuGenerated(policy)

\* The script generateScriptForPolicies generates for a policy without a
\* custom entry; empty when the policy has not the fields for it.
GeneratedPart(policy, scriptType) ==
    LET commands == IF MustNotExist(policy)
                    THEN AbsenceCommands(policy, Txt.noRevert \o policy.description)
                    ELSE IF ~MissingKeyOrItem(policy) THEN ValueCommands(policy)
                    ELSE Scripts(NoText, NoText, NoText)
    IN  IF scriptType = "hardeningScript" THEN commands.harden
        ELSE IF scriptType = "auditScript" THEN commands.check
        ELSE commands.revert

\* scriptPart of generateScriptForPolicies for one policy:
\* customScripts[policyId][scriptType] || '' if the map has an entry for the
\* policy's numeric prefix, else the generated script.
ScriptPart(policy, scriptType, scripts) ==
    LET policyId == PolicyIdMatch(policy.description)
    IN  IF policyId # NoText /\ CustomScriptsAt(scripts, policyId).defined
        THEN FieldOr(CustomScriptsAt(scripts, policyId)[scriptType], NoText)
        ELSE GeneratedPart(policy, scriptType)

\* scriptParts of generateScriptForPolicies: header and script of every
\* policy whose script is not empty.
RECURSIVE ScriptParts(_, _, _)
ScriptParts(list, scriptType, scripts) ==
    IF list = <<>> THEN <<>>
    ELSE LET part == ScriptPart(Head(list), scriptType, scripts)
             rest == ScriptParts(Tail(list), scriptType, scripts)
         IN  IF part # NoText
             THEN <<Txt.policyHeader \o Head(list).description \o <<"\n">> \o part>> \o rest
             ELSE rest

\* parts.join('\n\n')
RECURSIVE JoinBlankLine(_)
JoinBlankLine(parts) ==
    IF parts = <<>> THEN <<>>
    ELSE IF Len(parts) = 1 THEN parts[1]
    ELSE parts[1] \o <<"\n", "\n">> \o JoinBlankLine(Tail(parts))

\* generateScriptForPolicies(policies, scriptType)
generateScriptForPolicies(list, scriptType, scripts) ==
    JoinBlankLine(ScriptParts(list, scriptType, scripts))

\* description.replace(/[.*+?^${}()|[\]\\]/g, '\\$&')
RECURSIVE escapeRegExp(_)
escapeRegExp(s) ==
    LET metachars == {".", "*", "+", "?", "^", "$", "{", "}", "(", ")", "|", "[", "]", "\\"}
    IN  IF s = <<>> THEN <<>>
        ELSE (IF Head(s) \in metachars THEN <<"\\", Head(s)>> ELSE <<Head(s)>>)
                 \o escapeRegExp(Tail(s))

\* The atoms of a regular expression source without groups and
\* quantifiers: an escaped character stands for itself (\n for the line
\* feed), a dot for any character but a line terminator.
RECURSIVE RegexAtoms(_)
RegexAtoms(source) ==
    IF source = <<>> THEN <<>>
    ELSE IF Head(source) = "\\" /\ Len(source) >= 2
    THEN <<[any |-> FALSE, char |-> IF source[2] = "n" THEN "\n" ELSE source[2]]>>
             \o RegexAtoms(SubSeq(source, 3, Len(source)))
    ELSE <<[any |-> Head(source) = ".", char |-> Head(source)]>> \o RegexAtoms(Tail(source))

\* The atoms match s from position i on.
AtomsMatchAt(s, atoms, i) ==
    /\ i + Len(atoms) - 1 <= Len(s)
    /\ \A k \in 1..Len(atoms) :
           IF atoms[k].any THEN s[i + k - 1] \notin {"\n", "\r"}
           ELSE s[i + k - 1] = atoms[k].char

\* The command of handleGenerateReport for a policy: match[1].trim() for
\* the leftmost match of policyBlockRegex in the script, the block being
\* captured lazily up to the next "\n# Policy:" or the end of the script;
\* '' without a match.
ExtractCommand(script, description) ==
    LET atoms == RegexAtoms(Txt.policyHeader \o escapeRegExp(description) \o <<"\\", "n">>)
        at == {i \in 1..Len(script) : AtomsMatchAt(script, atoms, i)}
    IN  IF at = {} THEN NoText
        ELSE LET i == CHOOSE m \in at : \A n \in at : m <= n
                 from == i + Len(atoms)
                 to == CHOOSE j \in from..(Len(script) + 1) :
                           /\ j = Len(script) + 1 \/ StartsWithAt(script, Txt.nextHeader, j)
                           /\ \A k \in from..(j - 1) :
                                  ~StartsWithAt(script, Txt.nextHeader, k)
             IN  Trim(SubSeq(script, from, to - 1))

\* Custom script texts of the model: plain, with white space at an end,
\* of several lines, with a line that reads as the header of a policy.
CustomText ==
    [x |->
        <<"x">>,
     leadingSpace |->
        <<" ", "x">>,
     trailingNewline |->
        <<"x", "\n">>,
     twoLines |->
        <<"x", "\n", "y">>,
     withHeader |->
        <<"x", "\n", "#", " ", "P", "o", "l", "i", "c", "y", ":", " ", "2", " ", "B",
          "+", "\n", "y">>]

\* The custom script maps of the model: no entry, an entry for the prefix
\* 1.1 whose fields are missing, empty or text, or an entry for the prefix 2.
CustomScriptMaps ==
    LET uniform == {CustomEntry(f, f, f) :
                    f \in {Field(FALSE, NoText), Field(TRUE, NoText)}
                          \cup {Field(TRUE, CustomText[t]) : t \in DOMAIN CustomText}}
        mixed == CustomEntry(Field(TRUE, CustomText.x), Field(TRUE, NoText),
                             Field(FALSE, NoText))
        Map(first, second) ==
            [k \in {<<"1", ".", "1">>, <<"2">>} |->
                IF k = <<"2">> THEN second ELSE first]
    IN  {Map(e, NoEntry) : e \in uniform \cup {mixed, NoEntry}}
            \cup {Map(NoEntry, CustomEntry(Field(TRUE, CustomText.x),
                                           Field(TRUE, CustomText.x),
                                           Field(TRUE, CustomText.x)))}

\* Most policies of a template.
MaxPolicies == 2

\* The policy lists of n policies with pairwise distinct descriptions.
RECURSIVE PolicyLists(_)
PolicyLists(n) ==
    IF n = 0 THEN {<<>>}
    ELSE {Append(pair[1], pair[2]) :
          pair \in {lp \in PolicyLists(n - 1) \X TemplatePolicies :
                    \A i \in 1..Len(lp[1]) : lp[1][i].description # lp[2].description}}

\* The policy lists of the templates of the model.
TemplateLists == UNION {PolicyLists(n) : n \in 1..MaxPolicies}

(***************************************************************************)
(* Report runs of the dashboard.                                           *)
(***************************************************************************)
\* Most calls of handleGenerateReport.
MaxRuns == 2

Runs == 1..MaxRuns

Actions == {"Harden", "Audit", "Revert"}

\* executingTemplateId is null.
NoId == "null"

\* The templates of the dashboard: their policy lists.
Templates ==
    [T1 |-> <<ScriptPolicy(Desc.a, "value"), ScriptPolicy(Desc.n, "bare"),
              ScriptPolicy(Desc.b, "value")>>,
     T2 |-> <<ScriptPolicy(Desc.b, "absence"), ScriptPolicy(Desc.a, "value")>>,
     T3 |-> <<>>]

\* script and electronAction of handleGenerateReport: the script of the
\* template for the action, as packed without custom scripts, and the
\* bridge function that runs its commands.
ActionScriptOf(id, action) ==
    LET scriptType == IF action = "Harden" THEN "hardeningScript"
                      ELSE IF action = "Revert" THEN "revertHardeningScript"
                      ELSE "auditScript"
        electronAction == IF action = "Harden" THEN "applyHarden"
                          ELSE IF action = "Revert" THEN "revertHardening"
                          ELSE "checkStatus"
    IN  [script |-> generateScriptForPolicies(Templates[id], scriptType,
                        [k \in {<<"1", ".", "1">>, <<"2">>} |-> NoEntry]),
         electronAction |-> electronAction]

\* script and electronAction for every template and action.
ActionScripts ==
    [id \in DOMAIN Templates |-> [action \in Actions |-> ActionScriptOf(id, action)]]

ActionScript(id, action) == ActionScripts[id][action]

\* command of handleGenerateReport for every template, action and policy.
Commands ==
    [id \in DOMAIN Templates |->
        [action \in Actions |->
            [i \in 1..Len(Templates[id]) |->
                ExtractCommand(ActionScript(id, action).script,
                               Templates[id][i].description)]]]

\* A loop that takes the policies from the last to the first.
LoopOrderReversed(id) == [i \in 1..Len(Templates[id]) |-> Len(Templates[id]) + 1 - i]

\* The policies of the template in the order the loop of handleGenerateReport
\* takes them.
LoopOrder(id) == [i \in 1..Len(Templates[id]) |-> i]

\* A loop that hands the bridge the command of every policy, empty or not.
NextPolicy(id, action, from) == IF from < Len(Templates[id]) THEN from + 1 ELSE 0

\* Position in the loop order, after position from, of the next policy whose
\* command is not empty; 0 when there is none.
NextCommand(id, action, from) ==
    LET order == LoopOrder(id)
        rest == {k \in (from + 1)..Len(order) : Commands[id][action][order[k]] # NoText}
    IN  IF rest = {} THEN 0 ELSE CHOOSE k \in rest : \A j \in rest : k <= j

\* The reg commands the generator writes, for the keys, items and data of
\* the model, each with what it asks of reg.exe.
RegForms ==
    {[text |-> Txt.regQuery \o k \o Txt.quote, verb |-> "queryKey", key |-> k,
      item |-> NoText, value |-> Undefined] : k \in Keys}
    \cup {[text |-> Txt.regDelete \o k \o Txt.quoteForce, verb |-> "deleteKey", key |-> k,
           item |-> NoText, value |-> Undefined] : k \in Keys}
    \cup {[text |-> Txt.regQuery \o k \o Txt.value \o i \o Txt.quote, verb |-> "queryValue",
           key |-> k, item |-> i, value |-> Undefined] : k \in Keys, i \in Items}
    \cup {[text |-> Txt.regDelete \o k \o Txt.value \o i \o Txt.quoteForce,
           verb |-> "deleteValue", key |-> k, item |-> i, value |-> Undefined]
          : k \in Keys, i \in Items}
    \cup {[text |-> Txt.regAdd \o k \o Txt.value \o i \o Txt.type \o Txt.regDword
                        \o Txt.data \o d \o Txt.quoteForce,
           verb |-> "add", key |-> k, item |-> i,
           value |-> IF DigitRun(d) = d THEN Num(DigitsValue(d)) ELSE NaN]
          : k \in Keys, i \in Items, d \in ValueData}
    \cup {[text |-> Txt.regAdd \o k \o Txt.value \o i \o Txt.type \o Txt.regSz
                        \o Txt.data \o d \o Txt.quoteForce,
           verb |-> "add", key |-> k, item |-> i, value |-> Str(d)]
          : k \in Keys, i \in Items, d \in ValueData}

Exit(ok, reg) == [ok |-> ok, reg |-> reg]

\* exec(script) of the execution bridge on a machine with registry reg:
\* every way the command can end, as the exit status (ok: the promise
\* resolves, otherwise it rejects) and the registry left behind.  A query
\* succeeds iff what it names exists; a deletion fails on what does not
\* exist; a command that writes can be refused for lack of rights; a text
\* that is no reg command (a comment) does nothing and succeeds.
ExecRuns(script, reg) ==
    IF \A f \in RegForms : f.text # script THEN {Exit(TRUE, reg)}
    ELSE LET f == CHOOSE g \in RegForms : g.text = script
         IN  IF f.verb = "queryKey" THEN {Exit(KeyExists(reg, f.key), reg)}
             ELSE IF f.verb = "queryValue" THEN {Exit(ItemExists(reg, f.key, f.item), reg)}
             ELSE IF f.verb = "deleteKey"
             THEN IF KeyExists(reg, f.key)
                  THEN {Exit(TRUE, [reg EXCEPT ![f.key] = AbsentKey]), Exit(FALSE, reg)}
                  ELSE {Exit(FALSE, reg)}
             ELSE IF f.verb = "deleteValue"
             THEN IF ItemExists(reg, f.key, f.item)
                  THEN {Exit(TRUE, [reg EXCEPT ![f.key].values[f.item] = Undefined]),
                        Exit(FALSE, reg)}
                  ELSE {Exit(FALSE, reg)}
             ELSE IF f.value = NaN THEN {Exit(FALSE, reg)}
             ELSE {Exit(TRUE, [reg EXCEPT ![f.key] =
                                  [exists |-> TRUE,
                                   values |-> [reg[f.key].values EXCEPT ![f.item] = f.value]]]),
                   Exit(FALSE, reg)}

\* A call of handleGenerateReport: where it stands, its arguments, the
\* position of the loop, the commands it handed to the bridge with their
\* outcome, its results and the payload it submitted.
NoRun ==
    [pc |-> "idle", template |-> NoId, action |-> "", at |-> 0, issued |-> <<>>,
     results |-> <<>>, payload |-> [sent |-> FALSE, policies |-> <<>>]]

(***************************************************************************)
(* The script bridge of the main process: preload, IPC handlers and        *)
(* executeScript.                                                          *)
(***************************************************************************)
\* Fixed text of executeScript: the parts of the sudo command, the phrase it
\* looks for in the diagnostics and the reasons it rejects with.
Sh ==
    [echo |->
        <<"e", "c", "h", "o", " ", "'">>,
     sudo |->
        <<"'", " ", "|", " ", "s", "u", "d", "o", " ", "-", "S", " ", "-", "p", " ",
          "'", "'", " ", "s", "h", " ", "-", "c", " ", "'">>,
     quote |->
        <<"'">>,
     escapedQuote |->
        <<"'", "\\", "'", "'">>,
     incorrect |->
        <<"i", "n", "c", "o", "r", "r", "e", "c", "t", " ", "p", "a", "s", "s", "w",
          "o", "r", "d">>,
     badCredential |->
        <<"s", "u", "d", "o", ":", " ", "i", "n", "c", "o", "r", "r", "e", "c", "t",
          " ", "p", "a", "s", "s", "w", "o", "r", "d">>,
     typeError |->
        <<"T", "y", "p", "e", "E", "r", "r", "o", "r", ":", " ", "C", "a", "n", "n",
          "o", "t", " ", "d", "e", "s", "t", "r", "u", "c", "t", "u", "r", "e", " ",
          "p", "r", "o", "p", "e", "r", "t", "y", " ", "'", "p", "a", "s", "s", "w",
          "o", "r", "d", "'">>]

\* Further JavaScript values: null, and an object with the property
\* password.
Null == [t |-> "null", n |-> 0, s |-> NoText]

Obj(password) == [t |-> "obj", n |-> 0, s |-> password]

\* script.replace(/'/g, "'\\''")
RECURSIVE escapeQuotes(_)
escapeQuotes(script) ==
    IF script = <<>> THEN <<>>
    ELSE (IF Head(script) = "'" THEN Sh.escapedQuote ELSE <<Head(script)>>)
             \o escapeQuotes(Tail(script))

\* A wrapper that puts the script between the quotes as it is.
sudoCommandUnescaped(password, script) ==
    Sh.echo \o password \o Sh.sudo \o script \o Sh.quote

\* echo '${password}' | sudo -S -p '' sh -c '${escapedScript}'
sudoCommand(password, script) ==
    Sh.echo \o password \o Sh.sudo \o escapeQuotes(script) \o Sh.quote

\* executeScript(script, options) up to the call of exec: the destructuring
\* of options (a missing argument is {}, null throws, a string has no
\* property password) and the command handed to the shell.
executeScript(script, options, win32) ==
    LET password == IF options.t = "obj" THEN options.s ELSE NoText
    IN  [thrown |-> options.t = "null",
         password |-> password,
         command |-> IF options.t = "null" THEN NoText
                     ELSE IF password # NoText /\ ~win32
                     THEN sudoCommand(password, script)
                     ELSE script]

\* The options the handler of a channel gives executeScript for the second
\* argument of the message: { password } for apply-harden and
\* revert-hardening, the argument itself for check-status.
HandlerOptions(channel, second) ==
    IF channel = "check-status" THEN second
    ELSE IF second.t = "str" THEN Obj(second.s)
    ELSE Obj(NoText)

\* s.toLowerCase()
toLowerCase(s) ==
    LET upper == <<"A", "B", "C", "D", "E", "F", "G", "H", "I", "J", "K", "L", "M", "N",
                   "O", "P", "Q", "R", "S", "T", "U", "V", "W", "X", "Y", "Z">>
        lower == <<"a", "b", "c", "d", "e", "f", "g", "h", "i", "j", "k", "l", "m", "n",
                   "o", "p", "q", "r", "s", "t", "u", "v", "w", "x", "y", "z">>
    IN  [i \in 1..Len(s) |->
            IF \E k \in 1..26 : upper[k] = s[i]
            THEN lower[CHOOSE k \in 1..26 : upper[k] = s[i]]
            ELSE s[i]]

\* A match of the phrase that looks at the text as it is.
IncorrectPasswordExactCase(text) == Includes(text, Sh.incorrect)

\* text.toLowerCase().includes('incorrect password')
IncorrectPassword(text) == Includes(toLowerCase(text), Sh.incorrect)

\* The callback of exec: the promise of executeScript resolves with stdout
\* or rejects with the bad-credential reason, stderr or error.message.
ExecCallback(error, stdout, stderr) ==
    IF error
    THEN [state |-> "rejected",
          value |-> IF IncorrectPassword(stderr) THEN Sh.badCredential
                    ELSE IF stderr # NoText THEN stderr
                    ELSE <<"Command failed">>]
    ELSE [state |-> "resolved", value |-> stdout]

\* error.toString() of the rejection the renderer catches: ipcRenderer.invoke
\* rejects with an Error whose message ends with the reason.
CaughtText(channel, reason) ==
    <<"Error: Error invoking remote method '", channel, "': ">> \o reason

\* The words /bin/sh reads a command of single-quoted and plain words and
\* pipes as: quoted text stands for itself, a backslash outside quotes
\* for the next character; ok is false when a quote is left open or a
\* character outside quotes has a meaning of its own to the shell.
RECURSIVE ShWords(_, _, _, _, _, _)
ShWords(text, i, quoted, word, open, words) ==
    LET flushed == IF open THEN Append(words, word) ELSE words
    IN  IF i > Len(text)
        THEN [ok |-> ~quoted, words |-> flushed]
        ELSE IF quoted
        THEN IF text[i] = "'"
             THEN ShWords(text, i + 1, FALSE, word, TRUE, words)
             ELSE ShWords(text, i + 1, TRUE, Append(word, text[i]), TRUE, words)
        ELSE IF text[i] = "'"
        THEN ShWords(text, i + 1, TRUE, word, TRUE, words)
        ELSE IF text[i] = "\\" /\ i < Len(text)
        THEN ShWords(text, i + 2, FALSE, Append(word, text[i + 1]), TRUE, words)
        ELSE IF text[i] \in {" ", "\t"}
        THEN ShWords(text, i + 1, FALSE, <<>>, FALSE, flushed)
        ELSE IF text[i] = "|"
        THEN ShWords(text, i + 1, FALSE, <<>>, FALSE, Append(flushed, <<"|", "pipe">>))
        ELSE IF text[i] \in {"\n", "\"", "\\", "$", ";", "&", "<", ">", "(", ")", "#",
                             "*", "?", "[", "~", "!", "{"}
        THEN [ok |-> FALSE, words |-> flushed]
        ELSE ShWords(text, i + 1, FALSE, Append(word, text[i]), TRUE, words)

\* Script texts of the model: plain, with single and double quotes, with a
\* backslash, of two lines, and one that reads as the end of a quoted word.
ScriptText ==
    [plain |->
        <<"x">>,
     single |->
        <<"a", "'", "b">>,
     quotes |->
        <<"'", "\"", "'">>,
     backslash |->
        <<"a", "\\">>,
     lines |->
        <<"a", "\n", "b">>,
     closing |->
        <<"'", ";", "x", "'">>]

\* Diagnostics of the model.
Stderr ==
    [none |->
        <<>>,
     attempt |->
        <<"s", "u", "d", "o", ":", " ", "1", " ", "i", "n", "c", "o", "r", "r", "e",
          "c", "t", " ", "p", "a", "s", "s", "w", "o", "r", "d", " ", "a", "t", "t",
          "e", "m", "p", "t">>,
     capitals |->
        <<"S", "o", "r", "r", "y", ":", " ", "I", "n", "c", "o", "r", "r", "e", "c",
          "t", " ", "P", "a", "s", "s", "w", "o", "r", "d">>,
     other |->
        <<"x", ":", " ", "n", "o", "t", " ", "f", "o", "u", "n", "d">>]

\* The elevation secrets of the model: plain, and with a single quote.
Secrets == {<<"p">>, <<"p", "'", "q">>}

\* The second argument of a call of the bridge: missing, null, a string
\* (empty, a secret, a reg_option), or an object with a password.
SecondArguments ==
    {Undefined, Null, Str(NoText), Str(<<"MUST_NOT_EXIST">>)}
        \cup {Str(p) : p \in Secrets} \cup {Obj(p) : p \in Secrets}

(***************************************************************************)
(* The parts of the state a specification does not act on stay as they    *)
(* are when the application starts.                                        *)
(***************************************************************************)
NoTrail == [policy |-> NoPolicy, stage |-> "none"]

IdleRegistry ==
    /\ registry = [k \in Keys |-> AbsentKey]
    /\ last = [op |-> "none", policy |-> NoPolicy, result |-> NoResult,
               before |-> registry, trail |-> NoTrail]
    /\ trail = NoTrail

IdleSort ==
    /\ policies = <<>>
    /\ compared = [a |-> [description |-> NoText], b |-> [description |-> NoText],
                   result |-> 0]

NoDetail ==
    [viewer |-> "none", selectedPolicy |-> NoScriptPolicy,
     scripts |-> Scripts(NoText, NoText, NoText)]

NoTemplate == [policies |-> <<>>, scriptType |-> "", parts |-> <<>>, script |-> NoText]

NoCommand == [policy |-> NoScriptPolicy, text |-> NoText, extracted |-> FALSE]

IdleScripts ==
    /\ customScripts = [k \in {<<"1", ".", "1">>, <<"2">>} |-> NoEntry]
    /\ detail = NoDetail
    /\ template = NoTemplate
    /\ command = NoCommand

IdleRun ==
    /\ executingTemplateId = NoId
    /\ feedback = "null"
    /\ runs = [r \in Runs |-> NoRun]
    /\ bridge = {}

NoInvocation ==
    [via |-> "none", channel |-> "", script |-> NoText, second |-> Undefined,
     received |-> Undefined]

NoExecution == [ran |-> FALSE, thrown |-> FALSE, password |-> NoText, command |-> NoText]

NoSettlement ==
    [state |-> "pending", value |-> NoText, error |-> FALSE, stderr |-> NoText,
     recognised |-> FALSE]

IdleBridge ==
    /\ isWindows = FALSE
    /\ invocation = NoInvocation
    /\ executed = NoExecution
    /\ settled = NoSettlement

(***************************************************************************)
(* State of the registry specification: the registry, the last handler     *)
(* call with the registry it found, and the trail of the apply/revert      *)
(* sequence in progress (history variables).                               *)
(***************************************************************************)
Call(op, policy, result) ==
    [op |-> op, policy |-> policy, result |-> result, before |-> registry,
     trail |-> trail]

InitialKey ==
    {AbsentKey} \cup {[exists |-> TRUE, values |-> vs] :
                      vs \in [Items -> StoredValues \cup {Undefined}]}

InitRegistry ==
    /\ registry \in [Keys -> InitialKey]
    /\ registry[K2].values = NoValues
    /\ last = [op |-> "none", policy |-> NoPolicy, result |-> NoResult,
               before |-> registry, trail |-> NoTrail]
    /\ trail = NoTrail
    /\ IdleSort
    /\ IdleScripts
    /\ IdleRun
    /\ IdleBridge

\* The renderer invokes apply-hardening with a policy.
ApplyHardening ==
    \E policy \in RegPolicies :
        \E run \in ApplyHardeningRuns(registry, policy) :
            /\ registry' = run.reg
            /\ last' = Call("apply", policy, run.result)
            /\ trail' = IF /\ run.result.success
                           /\ ~ItemExists(registry, policy.reg_key, policy.reg_item)
                           /\ ItemExists(run.reg, policy.reg_key, policy.reg_item)
                        THEN [policy |-> policy, stage |-> "applied"]
                        ELSE NoTrail
            /\ UNCHANGED <<sortVars, scriptVars, runVars, bridgeVars>>

\* The renderer invokes revert-hardening with a policy.
RevertHardening ==
    \E policy \in RegPolicies :
        \E run \in RevertHardeningRuns(registry, policy) :
            /\ registry' = run.reg
            /\ last' = Call("revert", policy, run.result)
            /\ trail' = IF ~run.result.success THEN NoTrail
                        ELSE IF trail = [policy |-> policy, stage |-> "applied"]
                        THEN [policy |-> policy, stage |-> "reverted"]
                        ELSE [policy |-> policy, stage |-> "revertedAgain"]
            /\ UNCHANGED <<sortVars, scriptVars, runVars, bridgeVars>>

\* The renderer invokes check-status with a policy.
CheckStatus ==
    \E policy \in RegPolicies :
        \E result \in CheckStatusResults(registry, policy) :
            /\ last' = Call("check", policy, result)
            /\ UNCHANGED <<registry, trail, sortVars, scriptVars, runVars, bridgeVars>>

NextRegistry == ApplyHardening \/ RevertHardening \/ CheckStatus

SpecRegistry == InitRegistry /\ [][NextRegistry]_vars

(***************************************************************************)
(* State of the sort specification: the page's sorted policy list and the  *)
(* pair it was sorted from.                                                *)
(***************************************************************************)
NoCompared == [a |-> [description |-> NoText], b |-> [description |-> NoText], result |-> 0]

InitSort ==
    /\ policies = <<>>
    /\ compared = NoCompared
    /\ IdleRegistry
    /\ IdleScripts
    /\ IdleRun
    /\ IdleBridge

\* fetchProductData (run once when the page mounts): the fetched policies
\* are sorted and kept.
LoadPolicies ==
    \E a \in SortPolicySet, b \in SortPolicySet :
        /\ policies = <<>>
        /\ policies' = SortPolicies(<<a, b>>)
        /\ compared' = [a |-> a, b |-> b, result |-> naturalSort(a, b)]
        /\ UNCHANGED <<regVars, scriptVars, runVars, bridgeVars>>

NextSort == LoadPolicies

SpecSort == InitSort /\ [][NextSort]_vars

(***************************************************************************)
(* State of the scripts specification: the custom script map, the detail   *)
(* view of a policy, the script packed for a template and the command      *)
(* extracted from it.                                                      *)
(***************************************************************************)
InitScripts ==
    /\ customScripts \in CustomScriptMaps
    /\ detail = NoDetail
    /\ template = NoTemplate
    /\ command = NoCommand
    /\ IdleRegistry
    /\ IdleSort
    /\ IdleRun
    /\ IdleBridge

\* A policy is selected on the Windows product page.
SelectPolicyWindows ==
    \E policy \in ViewerPolicies :
        /\ detail = NoDetail /\ template = NoTemplate
        /\ detail' = [viewer |-> "windows", selectedPolicy |-> policy,
                      scripts |-> WindowsViewer(policy, customScripts)]
        /\ UNCHANGED <<customScripts, template, command, regVars, sortVars, runVars, bridgeVars>>

\* A policy is selected on the Ubuntu product page.
SelectPolicyUbuntu ==
    \E policy \in ViewerPolicies :
        /\ detail = NoDetail /\ template = NoTemplate
        /\ detail' = [viewer |-> "ubuntu", selectedPolicy |-> policy,
                      scripts |-> UbuntuViewer(policy, customScripts)]
        /\ UNCHANGED <<customScripts, template, command, regVars, sortVars, runVars, bridgeVars>>

\* A script of the policies of a template is packed.
GenerateScript ==
    \E list \in TemplateLists, scriptType \in ScriptTypes :
        /\ detail = NoDetail /\ template = NoTemplate
        /\ template' = [policies |-> list, scriptType |-> scriptType,
                        parts |-> [i \in 1..Len(list) |->
                                      ScriptPart(list[i], scriptType, customScripts)],
                        script |-> generateScriptForPolicies(list, scriptType,
                                                             customScripts)]
        /\ UNCHANGED <<customScripts, detail, command, regVars, sortVars, runVars, bridgeVars>>

\* handleGenerateReport takes the command of a policy from the packed script.
ExtractBlock ==
    \E i \in 1..Len(template.policies) :
        /\ command = NoCommand
        /\ command' = [policy |-> template.policies[i],
                       text |-> ExtractCommand(template.script,
                                               template.policies[i].description),
                       extracted |-> TRUE]
        /\ UNCHANGED <<customScripts, detail, template, regVars, sortVars, runVars, bridgeVars>>

NextScripts == SelectPolicyWindows \/ SelectPolicyUbuntu \/ GenerateScript \/ ExtractBlock

SpecScripts == InitScripts /\ [][NextScripts]_vars

(***************************************************************************)
(* State of the report run specification: the executing marker and the     *)
(* feedback of the dashboard, the calls of handleGenerateReport, each      *)
(* between two awaits, and the commands handed to the execution bridge     *)
(* with their outcome.                                                     *)
(***************************************************************************)
InitRun ==
    /\ executingTemplateId = NoId
    /\ feedback = "null"
    /\ runs = [r \in Runs |-> NoRun]
    /\ bridge = {}
    /\ registry \in {[k \in Keys |-> IF k \in present
                                     THEN [exists |-> TRUE, values |-> NoValues]
                                     ELSE AbsentKey] : present \in {{K1}, {K1, K2}}}
    /\ last = [op |-> "none", policy |-> NoPolicy, result |-> NoResult,
               before |-> registry, trail |-> NoTrail]
    /\ trail = NoTrail
    /\ IdleSort
    /\ IdleScripts
    /\ IdleBridge

\* The end of a call: the feedback is set and, in the finally block or
\* before the early return, the executing marker is cleared.  The locals of
\* the call are gone.
Finish(r, type) ==
    /\ runs' = [runs EXCEPT ![r] = [NoRun EXCEPT !.pc = "done"]]
    /\ feedback' = type
    /\ executingTemplateId' = NoId

\* The loop goes on after the policy at position run.at: the command of the
\* next policy that has one is handed to the bridge and awaited; after
\* the last one the report is built and createReport is called.
Continue(r, run, outstanding) ==
    LET next == NextCommand(run.template, run.action, run.at)
        policy == Templates[run.template][LoopOrder(run.template)[next]]
        electronAction == ActionScript(run.template, run.action).electronAction
    IN  IF next # 0
        THEN /\ runs' = [runs EXCEPT ![r] =
                    [run EXCEPT !.pc = "command", !.at = next,
                                !.issued = Append(@, [name |-> policy.description,
                                                      outcome |-> "pending"])]]
             /\ bridge' = outstanding \cup
                    {[run |-> r, name |-> policy.description,
                      electronAction |-> electronAction,
                      command |-> Commands[run.template][run.action]
                                          [LoopOrder(run.template)[next]],
                      reg_option |-> IF electronAction = "checkStatus"
                                     THEN policy.reg_option ELSE ""]}
        ELSE /\ runs' = [runs EXCEPT ![r] =
                    [run EXCEPT !.pc = "createReport",
                                !.payload = [sent |-> TRUE, policies |-> run.results]]]
             /\ bridge' = outstanding

\* The awaited command of the call is settled: the outcome is noted and,
\* with status Passed or Failed, results.push({ name, status }).
Push(run, outcome) ==
    LET policy == Templates[run.template][LoopOrder(run.template)[run.at]]
    IN  [run EXCEPT !.issued[Len(run.issued)].outcome = outcome,
                    !.results = Append(@, [name |-> policy.description,
                                           status |-> IF outcome = "resolved"
                                                      THEN "Passed" ELSE "Failed"])]

\* The command the call r awaits at the bridge.
Awaited(r) == CHOOSE c \in bridge : c.run = r

\* A report button of a template that is not marked as executing is
\* clicked: handleGenerateReport runs up to its first await.
StartReport(r) ==
    \E id \in DOMAIN Templates, action \in Actions :
        /\ runs[r].pc = "idle"
        /\ \A q \in 1..(r - 1) : runs[q].pc # "idle"
        /\ executingTemplateId # id
        /\ LET run == [runs[r] EXCEPT !.template = id, !.action = action]
           IN  IF ActionScript(id, action).script = NoText \/ Len(Templates[id]) = 0
               THEN Finish(r, "error")
               ELSE /\ runs' = [runs EXCEPT ![r] = [run EXCEPT !.pc = "getSystemInfo"]]
                    /\ executingTemplateId' = id
                    /\ feedback' = "null"
        /\ UNCHANGED <<bridge, regVars, sortVars, scriptVars, bridgeVars>>

\* getSystemInfo resolves: the loop over the policies starts.
SystemInfoResolves(r) ==
    /\ runs[r].pc = "getSystemInfo"
    /\ Continue(r, runs[r], bridge)
    /\ UNCHANGED <<executingTemplateId, feedback, regVars, sortVars, scriptVars, bridgeVars>>

\* getSystemInfo rejects: the outer catch and the finally block run.
SystemInfoRejects(r) ==
    /\ runs[r].pc = "getSystemInfo"
    /\ Finish(r, "error")
    /\ UNCHANGED <<bridge, regVars, sortVars, scriptVars, bridgeVars>>

\* The awaited command resolves: the policy is recorded Passed and the loop
\* goes on.
CommandResolves(r) ==
    /\ runs[r].pc = "command"
    /\ \E c \in bridge, exit \in ExecRuns(Awaited(r).command, registry) :
           /\ c = Awaited(r)
           /\ exit.ok
           /\ registry' = exit.reg
    /\ Continue(r, Push(runs[r], "resolved"), {c \in bridge : c.run # r})
    /\ UNCHANGED <<executingTemplateId, feedback, last, trail, sortVars, scriptVars,
                   bridgeVars>>

\* A rejection of the awaited command that reaches the outer catch.
CommandRejectsAborting(r) ==
    /\ runs[r].pc = "command"
    /\ \E c \in bridge, exit \in ExecRuns(Awaited(r).command, registry) :
           /\ c = Awaited(r)
           /\ ~exit.ok
           /\ registry' = exit.reg
    /\ Finish(r, "error")
    /\ bridge' = {c \in bridge : c.run # r}
    /\ UNCHANGED <<last, trail, sortVars, scriptVars, bridgeVars>>

\* The awaited command rejects: the inner catch records the policy Failed
\* and the loop goes on.
CommandRejects(r) ==
    /\ runs[r].pc = "command"
    /\ \E c \in bridge, exit \in ExecRuns(Awaited(r).command, registry) :
           /\ c = Awaited(r)
           /\ ~exit.ok
           /\ registry' = exit.reg
    /\ Continue(r, Push(runs[r], "rejected"), {c \in bridge : c.run # r})
    /\ UNCHANGED <<executingTemplateId, feedback, last, trail, sortVars, scriptVars,
                   bridgeVars>>

\* createReport resolves: getReportsForTemplate is called.
CreateReportResolves(r) ==
    /\ runs[r].pc = "createReport"
    /\ runs' = [runs EXCEPT ![r].pc = "getReportsForTemplate"]
    /\ UNCHANGED <<executingTemplateId, feedback, bridge, regVars, sortVars, scriptVars, bridgeVars>>

\* A rejection of createReport that no catch and no finally block takes up:
\* the call ends where it stands.
CreateReportRejectsUncaught(r) ==
    /\ runs[r].pc = "createReport"
    /\ runs' = [runs EXCEPT ![r].pc = "failed"]
    /\ UNCHANGED <<executingTemplateId, feedback, bridge, regVars, sortVars, scriptVars,
                   bridgeVars>>

\* createReport rejects: the outer catch and the finally block run.
CreateReportRejects(r) ==
    /\ runs[r].pc = "createReport"
    /\ Finish(r, "error")
    /\ UNCHANGED <<bridge, regVars, sortVars, scriptVars, bridgeVars>>

\* getReportsForTemplate resolves: the reports are shown, the success is
\* fed back and the finally block runs.
GetReportsResolves(r) ==
    /\ runs[r].pc = "getReportsForTemplate"
    /\ Finish(r, "success")
    /\ UNCHANGED <<bridge, regVars, sortVars, scriptVars, bridgeVars>>

\* getReportsForTemplate rejects: the outer catch and the finally block run.
GetReportsRejects(r) ==
    /\ runs[r].pc = "getReportsForTemplate"
    /\ Finish(r, "error")
    /\ UNCHANGED <<bridge, regVars, sortVars, scriptVars, bridgeVars>>

NextRun ==
    \E r \in Runs :
        \/ StartReport(r)
        \/ SystemInfoResolves(r)
        \/ SystemInfoRejects(r)
        \/ CommandResolves(r)
        \/ CommandRejects(r)
        \/ CreateReportResolves(r)
        \/ CreateReportRejects(r)
        \/ GetReportsResolves(r)
        \/ GetReportsRejects(r)

SpecRun == InitRun /\ [][NextRun]_vars

\* What a call waits for is settled: the system info lookup, the command at
\* the bridge, the submission of the report or the reload of the reports
\* resolves or rejects.
Settle(r) ==
    \/ SystemInfoResolves(r)
    \/ SystemInfoRejects(r)
    \/ CommandResolves(r)
    \/ CommandRejects(r)
    \/ CreateReportResolves(r)
    \/ CreateReportRejects(r)
    \/ GetReportsResolves(r)
    \/ GetReportsRejects(r)

\* The report runs when an awaited call is settled in the end: as the calls
\* are finitely many, each of them is.
FairSpecRun == SpecRun /\ WF_vars(\E r \in Runs : Settle(r))

(***************************************************************************)
(* State of the bridge specification: the platform, the call in progress   *)
(* (what the renderer passed and what the handler received), the command   *)
(* executeScript handed to the shell, and how the call was settled.        *)
(***************************************************************************)
InitBridge ==
    /\ isWindows \in BOOLEAN
    /\ invocation = NoInvocation
    /\ executed = NoExecution
    /\ settled = NoSettlement
    /\ IdleRegistry
    /\ IdleSort
    /\ IdleScripts
    /\ IdleRun

\* ipcMain.handle(channel): the handler gives executeScript the script and
\* the options; exec is called, or the destructuring of null has the
\* promise rejected at once.
Handle(via, channel, script, second, received) ==
    LET run == executeScript(script, HandlerOptions(channel, received), isWindows)
    IN  /\ invocation' = [via |-> via, channel |-> channel, script |-> script,
                          second |-> second, received |-> received]
        /\ executed' = [ran |-> ~run.thrown, thrown |-> run.thrown,
                        password |-> run.password, command |-> run.command]
        /\ settled' = IF run.thrown
                      THEN [NoSettlement EXCEPT !.state = "rejected",
                                                !.value = Sh.typeError]
                      ELSE NoSettlement
        /\ UNCHANGED <<isWindows, regVars, sortVars, scriptVars, runVars>>

\* window.electron.applyHarden(script, password) of the preload script:
\* the script alone is sent on apply-harden.
applyHarden ==
    \E script \in {ScriptText[t] : t \in DOMAIN ScriptText}, second \in SecondArguments :
        /\ invocation = NoInvocation
        /\ Handle("preload", "apply-harden", script, second, Undefined)

\* window.electron.revertHardening(script, password) of the preload script:
\* the script alone is sent on revert-hardening.
revertHardening ==
    \E script \in {ScriptText[t] : t \in DOMAIN ScriptText}, second \in SecondArguments :
        /\ invocation = NoInvocation
        /\ Handle("preload", "revert-hardening", script, second, Undefined)

\* window.electron.checkStatus(script, reg_option) of the preload script:
\* both are sent on check-status.
checkStatus ==
    \E script \in {ScriptText[t] : t \in DOMAIN ScriptText}, second \in SecondArguments :
        /\ invocation = NoInvocation
        /\ Handle("preload", "check-status", script, second, second)

\* A message with a script and a password arrives on apply-harden or
\* revert-hardening.
HardenMessage ==
    \E channel \in {"apply-harden", "revert-hardening"},
       script \in {ScriptText[t] : t \in DOMAIN ScriptText},
       second \in {Undefined} \cup {Str(p) : p \in Secrets} :
        /\ invocation = NoInvocation
        /\ Handle("ipc", channel, script, second, second)

\* The command ends: the callback of exec settles the promise and the
\* catch of the caller looks for the phrase in what it caught.
ExecEnds ==
    \E error \in BOOLEAN, stderr \in {Stderr[t] : t \in DOMAIN Stderr} :
        /\ executed.ran /\ settled.state = "pending"
        /\ LET result == ExecCallback(error, <<"out">>, stderr)
           IN  settled' = [state |-> result.state, value |-> result.value,
                           error |-> error, stderr |-> stderr,
                           recognised |->
                               /\ result.state = "rejected"
                               /\ IncorrectPassword(CaughtText(invocation.channel,
                                                               result.value))]
        /\ UNCHANGED <<isWindows, invocation, executed, regVars, sortVars, scriptVars,
                       runVars>>

NextBridge == applyHarden \/ revertHardening \/ checkStatus \/ HardenMessage \/ ExecEnds

SpecBridge == InitBridge /\ [][NextBridge]_vars

(***************************************************************************)
(* Properties of the registry bridge.                                      *)
(***************************************************************************)
\* A VALUE_SETTING policy: key and item populated, no absence option.
IsValueSetting(policy) ==
    ~MissingKeyOrItem(policy) /\ policy.reg_option # "MUST_NOT_EXIST"

\* VALUE_SETTING, value type INTEGER, expected value "1".
IsDwordOne(policy) ==
    /\ IsValueSetting(policy)
    /\ policy.value_type = "POLICY_DWORD"
    /\ policy.value_data = <<"1">>

\* C1: after a successful apply-hardening of a DWORD "1" policy on a registry
\* without the item, check-status returns Compliant; after a successful
\* revert-hardening following it, check-status returns Value Not Found (the
\* key made by apply is still there).
C1_EndToEnd ==
    (last.op = "check" /\ IsDwordOne(last.policy) /\ last.trail.policy = last.policy) =>
        /\ last.trail.stage = "applied" =>
               last.result.status = "Compliant" /\ last.result.success
        /\ last.trail.stage = "reverted" =>
               last.result.status = "Value Not Found" /\ ~last.result.success

C1_Witness ==
    /\ last.op = "check"
    /\ IsDwordOne(last.policy)
    /\ last.trail = [policy |-> last.policy, stage |-> "reverted"]
    /\ last.result.status = "Value Not Found"

\* C2: revert-hardening of a policy with key and item populated, on a registry
\* where the item is absent, returns success=true and leaves the registry as
\* it was; so does a revert that follows a successful revert of the policy.
C2_IdempotentRevert ==
    (last.op = "revert" /\ ~MissingKeyOrItem(last.policy)) =>
        /\ ~ItemExists(last.before, last.policy.reg_key, last.policy.reg_item) =>
               last.result.success /\ registry = last.before
        /\ (/\ last.trail.policy = last.policy
            /\ last.trail.stage \in {"reverted", "revertedAgain"}) =>
               last.result.success

C2_Witness ==
    /\ last.op = "revert"
    /\ IsValueSetting(last.policy)
    /\ last.trail = [policy |-> last.policy, stage |-> "reverted"]
    /\ KeyExists(last.before, last.policy.reg_key)
    /\ ~ItemExists(last.before, last.policy.reg_key, last.policy.reg_item)
    /\ last.result.success

\* C3: check-status of a MUST_NOT_EXIST policy returns Compliant (success)
\* whenever the location it names does not exist and Not Compliant (no
\* success) whenever it exists.
C3_AbsenceCheck ==
    (last.op = "check" /\ last.policy.reg_option = "MUST_NOT_EXIST") =>
        IF KeyExists(last.before, last.policy.value_data)
        THEN last.result.status = "Not Compliant" /\ ~last.result.success
        ELSE last.result.status = "Compliant" /\ last.result.success

\* C4: check-status of a DWORD "1" policy returns Compliant when the stored
\* value is the number 1 and when it is the string "1".
C4_TypeAwareEquality ==
    (/\ last.op = "check"
     /\ IsDwordOne(last.policy)
     /\ KeyExists(last.before, last.policy.reg_key)
     /\ last.before[last.policy.reg_key].values[last.policy.reg_item]
            \in {Num(1), Str(<<"1">>)}) =>
        last.result.status = "Compliant" /\ last.result.success

C4_Witness ==
    /\ last.op = "check"
    /\ IsDwordOne(last.policy)
    /\ KeyExists(last.before, last.policy.reg_key)
    /\ last.before[last.policy.reg_key].values[last.policy.reg_item] = Str(<<"1">>)
    /\ last.result.status = "Compliant"

\* n.toString() for a number that is not negative.
RECURSIVE DecimalText(_)
DecimalText(n) ==
    IF n < 10 THEN <<Digits[n + 1]>> ELSE DecimalText(n \div 10) \o <<Digits[(n % 10) + 1]>>

\* C20: check-status of a value setting whose key and item exist returns
\* Compliant iff the observed and the expected value are equal once
\* normalised (for POLICY_DWORD both parsed to integers, for any other type
\* both as text), and Not Compliant otherwise.
C20_EvaluatorEquality ==
    (/\ last.op = "check"
     /\ IsValueSetting(last.policy)
     /\ ItemExists(last.before, last.policy.reg_key, last.policy.reg_item)) =>
        LET observed == last.before[last.policy.reg_key].values[last.policy.reg_item]
            expected == Str(last.policy.value_data)
            Integer(v) == IF v.t = "str" THEN parseInt(v.s) ELSE v
            Text(v) == IF v.t = "str" THEN v.s ELSE DecimalText(v.n)
            equal == IF last.policy.value_type = "POLICY_DWORD"
                     THEN /\ Integer(observed).t = "num" /\ Integer(expected).t = "num"
                          /\ Integer(observed).n = Integer(expected).n
                     ELSE Text(observed) = Text(expected)
        IN  last.result.status = IF equal THEN "Compliant" ELSE "Not Compliant"

\* C21: check-status of a value setting returns Key Not Found with
\* success=false, and never Error, when the key does not exist, whichever
\* way regedit reports that; Value Not Found exactly when the key exists
\* and the item is missing; Compliant or Not Compliant exactly when both
\* exist.
C21_NotFoundOrder ==
    (last.op = "check" /\ IsValueSetting(last.policy)) =>
        LET key == KeyExists(last.before, last.policy.reg_key)
            item == ItemExists(last.before, last.policy.reg_key, last.policy.reg_item)
        IN  /\ ~key => (last.result.status = "Key Not Found" /\ ~last.result.success)
            /\ (last.result.status = "Value Not Found") <=> (key /\ ~item)
            /\ (last.result.status \in {"Compliant", "Not Compliant"}) <=> item

\* A check of a value setting whose key is reported missing by a thrown
\* error, classified as Key Not Found.
C21_Witness ==
    /\ last.op = "check"
    /\ IsValueSetting(last.policy)
    /\ ~KeyExists(last.before, last.policy.reg_key)
    /\ last.result.error = MsgNotFound
    /\ last.result.status = "Key Not Found"

\* C22: apply-hardening of a POLICY_DWORD value setting whose value_data is
\* not a number returns success=false and leaves the values of the key as
\* they were.
C22_TypeMismatch ==
    (/\ last.op = "apply"
     /\ IsValueSetting(last.policy)
     /\ last.policy.value_type = "POLICY_DWORD"
     /\ \E i \in DOMAIN last.policy.value_data : ~IsDigit(last.policy.value_data[i])) =>
        /\ ~last.result.success
        /\ registry[last.policy.reg_key].values = last.before[last.policy.reg_key].values

\* C25: apply-hardening of a policy that gives only the key that must not
\* exist (REG_CHECK, MUST_NOT_EXIST, value_data the key, no reg_key and no
\* reg_item) returns success=true and leaves that key absent.
C25_KeyAbsenceApplied ==
    (/\ last.op = "apply"
     /\ last.policy.type = "REG_CHECK"
     /\ last.policy.reg_option = "MUST_NOT_EXIST"
     /\ last.policy.reg_key = NoText
     /\ last.policy.reg_item = NoText
     /\ last.policy.value_data \in Keys) =>
        /\ last.result.success
        /\ ~KeyExists(registry, last.policy.value_data)

\* C27: every result of check-status has one of the five statuses and a
\* message, and success is true iff the status is Compliant.
C27_VerdictInvariant ==
    last.op = "check" =>
        /\ last.result.status \in
               {"Compliant", "Not Compliant", "Key Not Found", "Value Not Found", "Error"}
        /\ last.result.message # ""
        /\ last.result.success <=> (last.result.status = "Compliant")

\* A check whose listing was rejected, returned as a result with
\* success=false after an apply that succeeded.
C27_Witness ==
    /\ last.op = "check"
    /\ last.result.error = MsgNotFound
    /\ ~last.result.success
    /\ last.trail.stage = "applied"

(***************************************************************************)
(* Properties of the natural ordering.                                     *)
(***************************************************************************)
\* x is smaller than y when the components are compared one by one as
\* numbers: the first component that differs decides, and a prefix that
\* ends first is the smaller.
NumericallyLess(x, y) ==
    \E k \in 1..(Len(x) + 1) :
        /\ k <= Len(y)
        /\ \A j \in 1..(k - 1) : x[j] = y[j]
        /\ k <= Len(x) => x[k] < y[k]

BothPrefixed ==
    /\ PolicyIdMatch(compared.a.description) # NoText
    /\ PolicyIdMatch(compared.b.description) # NoText

\* C7: for two policies whose descriptions start with a dotted numeric prefix,
\* naturalSort puts a before b iff a's prefix is numerically smaller,
\* component by component, and the sorted list has them in that order.
C7_NaturalOrdering ==
    BothPrefixed =>
        LET x == PartsOf(PolicyIdMatch(compared.a.description))
            y == PartsOf(PolicyIdMatch(compared.b.description))
        IN  /\ (compared.result < 0) <=> NumericallyLess(x, y)
            /\ (compared.result > 0) <=> NumericallyLess(y, x)
            /\ NumericallyLess(x, y) => policies = <<compared.a, compared.b>>
            /\ NumericallyLess(y, x) => policies = <<compared.b, compared.a>>

\* "2.9 ..." and "2.10 ..." in the prefixes of the model: 0.9 and 0.10,
\* given in the order that has to be reversed.
C7_Witness ==
    /\ compared.a.description = <<"0", ".", "1", "0", " ", "A">>
    /\ compared.b.description = <<"0", ".", "9", " ", "A">>
    /\ compared.result > 0
    /\ policies = <<compared.b, compared.a>>

\* C17: two policies with different descriptions whose prefixes have the
\* same components are in the sorted list in the order of their
\* descriptions as text, whichever was given first.
C17_TieBreak ==
    (/\ BothPrefixed
     /\ compared.a.description # compared.b.description
     /\ PartsOf(PolicyIdMatch(compared.a.description))
            = PartsOf(PolicyIdMatch(compared.b.description))) =>
        policies = IF localeCompare(compared.a.description, compared.b.description) < 0
                   THEN <<compared.a, compared.b>>
                   ELSE <<compared.b, compared.a>>

Sign(n) == IF n < 0 THEN 0 - 1 ELSE IF n > 0 THEN 1 ELSE 0

\* C30: naturalSort is antisymmetric (the sign of naturalSort(b, a) is the
\* opposite of the sign of naturalSort(a, b)) and transitive (a before b
\* and b before c imply a before c) over the descriptions of the page,
\* with and without a prefix.
C30_ConsistentOrdering ==
    compared # NoCompared =>
        /\ Sign(naturalSort(compared.b, compared.a)) = 0 - Sign(compared.result)
        /\ \A c \in SortPolicySet :
               (compared.result < 0 /\ naturalSort(compared.b, c) < 0) =>
                   naturalSort(compared.a, c) < 0

(***************************************************************************)
(* Properties of script generation, packing and extraction.                *)
(***************************************************************************)
\* The custom script map has an entry for the numeric prefix of the policy.
HasEntry(policy) ==
    /\ PolicyIdMatch(policy.description) # NoText
    /\ CustomScriptsAt(customScripts, PolicyIdMatch(policy.description)).defined

\* C5: the command extracted for a policy from the packed script of a
\* template is exactly the script that was packed for that policy.
C5_RoundTrip ==
    command.extracted =>
        command.text = ScriptPart(command.policy, template.scriptType, customScripts)

\* C6: when the custom script map has an entry for the numeric prefix of a
\* policy, a viewer shows the scripts of the entry (a placeholder for an
\* empty or missing one) and none of the three is the generated script;
\* the packer packs the script of the entry (nothing for an empty or
\* missing one), which is not the generated script where one is generated.
C6_OverridePrecedence ==
    /\ (detail.viewer # "none" /\ HasEntry(detail.selectedPolicy)) =>
           LET generated == IF detail.viewer = "windows"
                            THEN WindowsGenerated(detail.selectedPolicy)
                            ELSE UbuntuGenerated(detail.selectedPolicy)
               entry == CustomScriptsAt(customScripts,
                                        PolicyIdMatch(detail.selectedPolicy.description))
           IN  /\ detail.scripts = CustomScriptsShown(entry)
               /\ detail.scripts.harden # generated.harden
               /\ detail.scripts.check # generated.check
               /\ detail.scripts.revert # generated.revert
    /\ \A i \in 1..Len(template.policies) :
           HasEntry(template.policies[i]) =>
               LET policy == template.policies[i]
                   generated == GeneratedPart(policy, template.scriptType)
                   entry == CustomScriptsAt(customScripts,
                                            PolicyIdMatch(policy.description))
               IN  /\ template.parts[i] = FieldOr(entry[template.scriptType], NoText)
                   /\ generated # NoText => template.parts[i] # generated

\* An entry with three empty fields hides the generated scripts of a policy
\* that sets a registry value.
C6_Witness ==
    /\ detail.viewer = "windows"
    /\ detail.selectedPolicy = ScriptPolicy(Desc.a, "value")
    /\ customScripts[<<"1", ".", "1">>]
           = CustomEntry(Field(TRUE, NoText), Field(TRUE, NoText), Field(TRUE, NoText))
    /\ detail.scripts.harden = <<"# No custom hardening script provided.">>

\* C18 (as stated): with an entry for the prefix of the policy, the three
\* scripts a viewer shows are the three strings of the entry, also when a
\* string is empty.
C18_Verbatim ==
    (detail.viewer # "none" /\ HasEntry(detail.selectedPolicy)) =>
        LET entry == CustomScriptsAt(customScripts,
                                     PolicyIdMatch(detail.selectedPolicy.description))
        IN  /\ entry.hardeningScript.defined =>
                   detail.scripts.harden = entry.hardeningScript.text
            /\ entry.auditScript.defined => detail.scripts.check = entry.auditScript.text
            /\ entry.revertHardeningScript.defined =>
                   detail.scripts.revert = entry.revertHardeningScript.text

\* C18 (amended): with an entry for the prefix of the policy, each script a
\* viewer shows is the string of the entry, character for character, when
\* that string is not empty, and the '# No custom ... script provided.'
\* line of that script when it is empty or missing.
C18_VerbatimOrPlaceholder ==
    (detail.viewer # "none" /\ HasEntry(detail.selectedPolicy)) =>
        LET entry == CustomScriptsAt(customScripts,
                                     PolicyIdMatch(detail.selectedPolicy.description))
            Shown(field, script, placeholder) ==
                IF field.defined /\ field.text # NoText THEN script = field.text
                ELSE script = placeholder
        IN  /\ Shown(entry.hardeningScript, detail.scripts.harden,
                     <<"# No custom hardening script provided.">>)
            /\ Shown(entry.auditScript, detail.scripts.check,
                     <<"# No custom audit script provided.">>)
            /\ Shown(entry.revertHardeningScript, detail.scripts.revert,
                     <<"# No custom revert script provided.">>)

\* The Ubuntu viewer shows a custom script that starts with a space as it
\* is, next to the placeholder of an empty one.
C18_Witness ==
    /\ detail.viewer = "ubuntu"
    /\ HasEntry(detail.selectedPolicy)
    /\ \/ detail.scripts.harden = CustomText.leadingSpace
       \/ /\ detail.scripts.harden = CustomText.x
          /\ detail.scripts.check = <<"# No custom audit script provided.">>

\* C19: for a description that matches the kernel module pattern, the first
\* of the patterns, and has no custom entry, the Ubuntu viewer shows the
\* kernel module scripts, whatever later pattern matches as well.
C19_FirstMatchWins ==
    (/\ detail.viewer = "ubuntu"
     /\ ~HasEntry(detail.selectedPolicy)
     /\ ModuleMatch(detail.selectedPolicy.description) # NoText) =>
        /\ detail.scripts.harden[1] = "#!/bin/sh\n# Disables the '"
        /\ detail.scripts.check[1] = "#!/bin/sh\n# Checks if '"
        /\ detail.scripts.revert[1] = "#!/bin/sh\n# Enables the '"

(***************************************************************************)
(* Properties of the report runs.                                          *)
(***************************************************************************)
\* The position of a description in the policy list of the template of r.
PositionOf(r, description) ==
    CHOOSE i \in 1..Len(Templates[runs[r].template]) :
        Templates[runs[r].template][i].description = description

\* The positions in the policy list of the template of the call r, after
\* the policy the call awaits, of the policies whose block in the script of
\* the call is not empty.
LaterWithCommand(r) ==
    {i \in 1..Len(Templates[runs[r].template]) :
     /\ i > PositionOf(r, runs[r].issued[Len(runs[r].issued)].name)
     /\ Commands[runs[r].template][runs[r].action][i] # NoText}

\* C8: at most one policy command is outstanding at the execution bridge.
C8_NoConcurrentCommands == Cardinality(bridge) <= 1

\* C9: when the command a call awaits is settled, the call goes on: the
\* policy is recorded Failed if the bridge rejected and Passed if it
\* resolved; if a later policy of the template has a command, the command
\* of the first such policy is handed to the bridge, and if none has, the
\* report is built from the results and submitted.
C9_FailureIsolation ==
    [][\A r \in Runs :
           (runs[r].pc = "command" /\ runs'[r] # runs[r]) =>
               /\ runs'[r].pc \in {"command", "createReport"}
               /\ LET awaited == runs[r].issued[Len(runs[r].issued)].name
                      outcome == runs'[r].issued[Len(runs[r].issued)].outcome
                  IN  /\ outcome \in {"resolved", "rejected"}
                      /\ runs'[r].results =
                             Append(runs[r].results,
                                    [name |-> awaited,
                                     status |-> IF outcome = "rejected" THEN "Failed"
                                                ELSE "Passed"])
               /\ IF LaterWithCommand(r) # {}
                  THEN LET i == CHOOSE i \in LaterWithCommand(r) :
                                    \A j \in LaterWithCommand(r) : i <= j
                       IN  /\ runs'[r].pc = "command"
                           /\ \E c \in bridge' :
                                  /\ c.run = r
                                  /\ c.name = Templates[runs[r].template][i].description
                  ELSE /\ runs'[r].pc = "createReport"
                       /\ runs'[r].payload =
                              [sent |-> TRUE, policies |-> runs'[r].results]]_vars

\* The first command of a call is rejected, the second is handed over and
\* resolves, and the report is submitted with both entries.
C9_Witness ==
    /\ runs[1].payload.sent
    /\ runs[1].payload.policies = <<[name |-> Desc.a, status |-> "Failed"],
                                    [name |-> Desc.b, status |-> "Passed"]>>

\* C10: the entries of a submitted report, and the commands a call hands to
\* the bridge, are in the order of their policies in the policy list of
\* the template.
C10_Ordering ==
    \A r \in Runs :
        LET Ordered(names) ==
                \A i, j \in 1..Len(names) :
                    i < j => PositionOf(r, names[i].name) < PositionOf(r, names[j].name)
        IN  /\ runs[r].payload.sent => Ordered(runs[r].payload.policies)
            /\ Ordered(runs[r].issued)

\* Two calls are interleaved; the second submits a report of two entries,
\* one Passed and one Failed.
C10_Witness ==
    /\ runs[1].pc = "command"
    /\ runs[2].payload.sent
    /\ runs[2].payload.policies = <<[name |-> Desc.a, status |-> "Passed"],
                                    [name |-> Desc.b, status |-> "Failed"]>>

\* C11: a submitted report has exactly one entry for each policy of the
\* template whose command is not empty and none for any other policy, the
\* bridge was handed exactly the commands of those policies, an entry is
\* Passed iff the command of its policy resolved and Failed iff it was
\* rejected, and there are as many Passed and Failed entries as resolved
\* and rejected commands.
C11_ReportMatchesOutcomes ==
    \A r \in Runs :
        runs[r].payload.sent =>
            LET run == runs[r]
                entries == run.payload.policies
                list == Templates[run.template]
                Count(seq, description) ==
                    Cardinality({k \in 1..Len(seq) : seq[k].name = description})
                With(seq, field, value) ==
                    Cardinality({k \in 1..Len(seq) : seq[k][field] = value})
            IN  /\ \A i \in 1..Len(list) :
                       LET expected == IF Commands[run.template][run.action][i] # NoText
                                       THEN 1 ELSE 0
                       IN  /\ Count(entries, list[i].description) = expected
                           /\ Count(run.issued, list[i].description) = expected
                /\ \A k \in 1..Len(entries) :
                       \E j \in 1..Len(run.issued) :
                           /\ run.issued[j].name = entries[k].name
                           /\ entries[k].status = "Passed"
                                  <=> run.issued[j].outcome = "resolved"
                           /\ entries[k].status = "Failed"
                                  <=> run.issued[j].outcome = "rejected"
                /\ With(entries, "status", "Passed") = With(run.issued, "outcome", "resolved")
                /\ With(entries, "status", "Failed") = With(run.issued, "outcome", "rejected")

\* A Revert run of the template whose second policy has no command submits
\* a report of two entries, the first Passed and the second Failed.
C11_Witness ==
    /\ runs[1].template = "T1" /\ runs[1].action = "Revert"
    /\ Commands["T1"]["Revert"][2] = NoText
    /\ runs[1].payload.sent
    /\ runs[1].payload.policies = <<[name |-> Desc.a, status |-> "Passed"],
                                    [name |-> Desc.b, status |-> "Failed"]>>

\* The call r has started and not finished.
InProgress(r) == runs[r].pc \notin {"idle", "done"}

\* The policy whose command the call r awaits.
AwaitedPolicy(r) == Templates[runs[r].template][LoopOrder(runs[r].template)[runs[r].at]]

\* C23: the commands a call hands to the bridge, and the entries of the
\* report it submits, are in the natural order of the descriptions of
\* their policies.
C23_RunOrderNatural ==
    \A r \in Runs :
        LET Natural(names) ==
                \A i, j \in 1..Len(names) :
                    i < j => naturalSort([description |-> names[i].name],
                                         [description |-> names[j].name]) <= 0
        IN  /\ Natural(runs[r].issued)
            /\ runs[r].payload.sent => Natural(runs[r].payload.policies)

\* C24: when a command of a Harden run has succeeded, the same command run
\* again succeeds and leaves the registry as the first execution left it.
C24_HardenIdempotent ==
    [][\A r \in Runs :
           (/\ runs[r].pc = "command"
            /\ runs[r].action = "Harden"
            /\ runs'[r] # runs[r]
            /\ runs'[r].issued[Len(runs[r].issued)].outcome = "resolved") =>
               \E exit \in ExecRuns(Awaited(r).command, registry') :
                   exit.ok /\ exit.reg = registry']_vars

\* C26: in an Audit run, a policy with reg_option MUST_NOT_EXIST whose
\* command is the query of its key is recorded Passed when the key does not
\* exist and Failed when it exists.
C26_BatchAbsenceAudit ==
    [][\A r \in Runs :
           (/\ runs[r].pc = "command"
            /\ runs[r].action = "Audit"
            /\ runs'[r] # runs[r]
            /\ AwaitedPolicy(r).reg_option = "MUST_NOT_EXIST"
            /\ Awaited(r).command
                   = Txt.regQuery \o AwaitedPolicy(r).value_data \o Txt.quote) =>
               runs'[r].results[Len(runs[r].results) + 1] =
                   [name |-> AwaitedPolicy(r).description,
                    status |-> IF KeyExists(registry, AwaitedPolicy(r).value_data)
                               THEN "Failed" ELSE "Passed"]]_vars

\* C28: while a call for a template is in progress the executing marker
\* names that template, so that its Harden, Audit and Revert buttons are
\* disabled.
C28_RunGuard ==
    \A r \in Runs : InProgress(r) => executingTemplateId = runs[r].template

\* C29: every call that has started finishes (no call is in progress for
\* ever: a call that is not in progress has not started or has finished,
\* and a finished call stays finished), and the step that finishes a call,
\* on the early return as on the other paths, leaves the executing marker
\* null.
C29_RunCompletion ==
    /\ \A r \in Runs : []<>(~InProgress(r))
    /\ [][\A r \in Runs :
              (runs[r].pc # "done" /\ runs'[r].pc = "done") =>
                  executingTemplateId' = NoId]_vars

\* Both calls have finished, the last of them after its report was
\* submitted and the reports were loaded again.
C29_Witness ==
    /\ \A r \in Runs : runs[r].pc = "done"
    /\ feedback = "success"
    /\ executingTemplateId = NoId

(***************************************************************************)
(* Properties of the script bridge.                                        *)
(***************************************************************************)
\* The call in progress had its command handed to the shell on a POSIX
\* platform with an elevation secret.
RanElevated == executed.ran /\ executed.password # NoText /\ ~isWindows

\* C12: on a POSIX platform, the command executed for a call of applyHarden
\* or revertHardening with a non-empty secret is the sudo command of the
\* script and the secret.
C12_ElevationReachesBridge ==
    (/\ invocation.via = "preload"
     /\ invocation.channel \in {"apply-harden", "revert-hardening"}
     /\ invocation.second.t = "str" /\ invocation.second.s # NoText
     /\ executed.ran /\ ~isWindows) =>
        executed.command = sudoCommand(invocation.second.s, invocation.script)

\* C13: a command that fails with diagnostics that contain 'incorrect
\* password' in any letter case is rejected with 'sudo: incorrect password',
\* and the match of the caller on what it catches recognises the rejection.
C13_BadCredential ==
    (/\ executed.ran /\ settled.state # "pending" /\ settled.error
     /\ \E i \in 1..Len(settled.stderr) :
            /\ i + Len(Sh.incorrect) - 1 <= Len(settled.stderr)
            /\ toLowerCase(SubSeq(settled.stderr, i, i + Len(Sh.incorrect) - 1))
                   = Sh.incorrect) =>
        /\ settled.state = "rejected"
        /\ settled.value = Sh.badCredential
        /\ settled.recognised

\* A command run with a secret fails with 'Sorry: Incorrect Password' and is
\* rejected as a bad credential.
C13_Witness ==
    /\ RanElevated
    /\ settled.error /\ settled.stderr = Stderr.capitals
    /\ settled.value = Sh.badCredential
    /\ settled.recognised

C15_SecretSideChannel ==
    RanElevated => ~Includes(executed.command, executed.password)

\* C16: the command executed for a call of checkStatus is the script itself,
\* whatever the second argument.
C16_AuditNeverElevates ==
    (invocation.channel = "check-status" /\ executed.ran) =>
        executed.command = invocation.script
====
